---------------------------- MODULE Spec2Model ----------------------------
(***************************************************************************)
(* A model of simplestruct: the Field / TypedField descriptors, the        *)
(* MetaStruct schema compiler and instantiation protocol, and the Struct   *)
(* value semantics (equality, hashing, item assignment, reconstruction).   *)
(*                                                                         *)
(* Python values are records [k, n, items]; instances live in a heap (a    *)
(* sequence, the index being the object's identity); exceptions are        *)
(* records [etype, msg, cause].                                            *)
(***************************************************************************)
EXTENDS Integers, Sequences, FiniteSets, TLC

VARIABLES
    classes,    \* class name -> compiled Struct type (_struct, _immutable, ...)
    heap,       \* sequence of instances: [cls, initialized, d]
    cur,        \* the instantiation in progress (a frame), or Idle
    last        \* the last operation performed and its outcome

vars == <<classes, heap, cur, last>>

---------------------------------------------------------------------------
(* Bounds of the model *)

MaxInst == 2        \* instances alive at one time
MaxInt == 2         \* integer field values range over 0 .. MaxInt
MaxSeq == 2         \* lists and tuples given to typed fields have at most MaxSeq elements

---------------------------------------------------------------------------
(* Python values *)

IntV(n) == [k |-> "int", n |-> n, items |-> <<>>]
StrV(n) == [k |-> "str", n |-> n, items |-> <<>>]
RefV(i) == [k |-> "ref", n |-> i, items |-> <<>>]
TupV(s) == [k |-> "tuple", n |-> 0, items |-> s]
ListV(s) == [k |-> "list", n |-> 0, items |-> s]
\* A generator that has yielded nothing yet; items is what it would yield.
GenV(s) == [k |-> "generator", n |-> 0, items |-> s]
BoolV(b) == [k |-> "bool", n |-> IF b THEN 1 ELSE 0, items |-> <<>>]
NoneV == [k |-> "NoneType", n |-> 0, items |-> <<>>]

IntVals == {IntV(n) : n \in 0 .. MaxInt}

---------------------------------------------------------------------------
(* Exceptions.  msg is the formatted message as a sequence of pieces;      *)
(* cause is the exception named by "raise ... from exc", or NoExc.         *)

NoExc == [etype |-> "none"]

Exc(etype, msg) == [etype |-> etype, msg |-> msg, cause |-> NoExc]

Ok(v) == [ok |-> TRUE, val |-> v, exc |-> NoExc]
Raise(e) == [ok |-> FALSE, val |-> IntV(0), exc |-> e]

---------------------------------------------------------------------------
(* Field descriptors *)

NO_DEFAULT == [k |-> "NO_DEFAULT", n |-> 0, items |-> <<>>]

\* The identity of a descriptor object: a descriptor made by the declaring
\* code is told apart by its constructor arguments (DeclaredObj), a copy
\* made by the schema compiler by the class statement and the attribute it
\* was made for.
DeclaredObj == [cls |-> "", name |-> ""]
CopyObj(clsname, fname) == [cls |-> clsname, name |-> fname]

\* Field(default=...), CustomField() of the tests, TypedField(kind, ...).
\* kind is stored normalised: a tuple of type names.
FieldDecl(ftype, default, kind) ==
    [ftype |-> ftype, name |-> "", default |-> default, kind |-> kind,
     seq |-> FALSE, unique |-> FALSE, or_none |-> FALSE, obj |-> DeclaredObj]

Field == FieldDecl("Field", NO_DEFAULT, <<>>)
FieldDefault(v) == FieldDecl("Field", v, <<>>)
CustomField == FieldDecl("CustomField", NO_DEFAULT, <<>>)

\* What may be given for a kind: None, one type, or a list / tuple of types.
KindNone == [form |-> "None", types |-> <<>>]
Type(t) == [form |-> "type", types |-> <<t>>]
Types(ts) == [form |-> "sequence", types |-> ts]

\* TypeChecker.normalize_kind
normalize_kind(kindlike) ==
    IF kindlike.form = "None" THEN <<"object">>
    ELSE IF kindlike.form = "type" THEN <<kindlike.types[1]>>
    ELSE kindlike.types

\* TypedField(kind, seq=..., unique=..., or_none=...)
TypedFieldOpts(kindlike, seq, unique, or_none) ==
    [FieldDecl("TypedField", NO_DEFAULT, normalize_kind(kindlike))
        EXCEPT !.seq = seq, !.unique = unique, !.or_none = or_none]

TypedField(kindlike) == TypedFieldOpts(kindlike, FALSE, FALSE, FALSE)

has_default(f) == f.default # NO_DEFAULT

\* Field.copy / TypedField.copy: a fresh, unnamed descriptor with the same
\* constructor arguments; o is the identity of the new object.
copy(f, o) == [f EXCEPT !.name = "", !.obj = o]


---------------------------------------------------------------------------
(* Sequence helpers *)

Range(s) == {s[i] : i \in DOMAIN s}

\* The lists joined from the last to the first.
RECURSIVE ConcatRightToLeft(_)
ConcatRightToLeft(ss) ==
    IF ss = <<>> THEN <<>> ELSE ConcatRightToLeft(Tail(ss)) \o Head(ss)

RECURSIVE Concat(_)
Concat(ss) == IF ss = <<>> THEN <<>> ELSE Head(ss) \o Concat(Tail(ss))

ReverseSeq(s) == [i \in 1 .. Len(s) |-> s[Len(s) + 1 - i]]

---------------------------------------------------------------------------
(* Class bodies.  A body is the sequence of assignments executed in the    *)
(* class statement: field declarations, the bare-class shorthand, the      *)
(* flags _immutable / _inherit_fields, and def __init__.                   *)

DeclField(n, f) == [name |-> n, t |-> "field", f |-> f, v |-> FALSE, code |-> <<>>]
DeclFieldClass(n) == [name |-> n, t |-> "fieldclass", f |-> Field, v |-> FALSE, code |-> <<>>]
DeclFlag(n, b) == [name |-> n, t |-> "flag", f |-> Field, v |-> b, code |-> <<>>]
DeclInit(code) == [name |-> "__init__", t |-> "def", f |-> Field, v |-> FALSE, code |-> code]

\* A namespace that keeps every assignment of the class body.
OrderedDictKeepAll(body) == body

\* MetaStruct.__prepare__: the namespace is an OrderedDict, so assigning a
\* name again replaces its value and keeps the position of the first
\* assignment.
RECURSIVE OrderedDict(_)
OrderedDict(body) ==
    IF body = <<>> THEN <<>>
    ELSE LET n == Len(body)
             before == OrderedDict(SubSeq(body, 1, n - 1))
             item == body[n]
         IN IF \E i \in DOMAIN before : before[i].name = item.name
            THEN [i \in DOMAIN before |->
                    IF before[i].name = item.name THEN item ELSE before[i]]
            ELSE Append(before, item)

\* namespace.get(key, default) for the flags.
NamespaceHas(ns, key) == \E i \in DOMAIN ns : ns[i].name = key
NamespaceItem(ns, key) == ns[CHOOSE i \in DOMAIN ns : ns[i].name = key]

\* collections.Counter over the field names, then the names counted more
\* than once, in first-occurrence order.
CountName(fields, n) == Cardinality({i \in DOMAIN fields : fields[i].name = n})

RECURSIVE Collided(_, _)
Collided(fields, i) ==
    IF i > Len(fields) THEN <<>>
    ELSE LET n == fields[i].name
             first == \A j \in 1 .. (i - 1) : fields[j].name # n
         IN (IF first /\ CountName(fields, n) > 1 THEN <<n>> ELSE <<>>)
            \o Collided(fields, i + 1)

\* A loop round that names the declared descriptor itself.
NameFieldInPlace(clsname, item) ==
    [slot |-> [item.f EXCEPT !.name = item.name],
     original |-> [item.f EXCEPT !.name = item.name]]

\* f = f.copy(); f.name = fname: the schema slot made for a declared
\* descriptor, and the declared descriptor as the round leaves it.
NameField(clsname, item) ==
    [slot |-> [copy(item.f, CopyObj(clsname, item.name)) EXCEPT !.name = item.name],
     original |-> item.f]

\* The fields this class's own namespace contributes: each Field instance
\* (or bare Field class) is copied and given its attribute name.
RECURSIVE OwnFields(_, _)
OwnFields(clsname, ns) ==
    IF ns = <<>> THEN <<>>
    ELSE LET item == Head(ns)
         IN (IF item.t \in {"field", "fieldclass"}
             THEN <<NameField(clsname, item).slot>>
             ELSE <<>>) \o OwnFields(clsname, Tail(ns))

\* The descriptors the class body declared, as the loop leaves them.
RECURSIVE Originals(_, _)
Originals(clsname, ns) ==
    IF ns = <<>> THEN <<>>
    ELSE LET item == Head(ns)
         IN (IF item.t \in {"field", "fieldclass"}
             THEN <<NameField(clsname, item).original>>
             ELSE <<>>) \o Originals(clsname, Tail(ns))

\* inspect.Signature(params) rejects a parameter without default after
\* one with a default.
BadSignature(fields) ==
    \E i, j \in DOMAIN fields :
        i < j /\ has_default(fields[i]) /\ ~has_default(fields[j])

\* Attribute lookup of an inherited class attribute (single inheritance
\* chain: own namespace, then the first base; Struct itself has
\* _immutable = True and no __init__).
InheritedImmutable(cls, bases) ==
    IF bases = <<>> THEN TRUE ELSE cls[bases[1]]._immutable

InheritedInit(cls, bases) ==
    IF bases = <<>> THEN <<>> ELSE cls[bases[1]].init

\* MetaStruct.__new__: the schema compiler.  Returns Ok with the compiled
\* class in .cls, or the exception raised by the class statement.
MetaStruct__new__(cls, clsname, bases, body) ==
    LET namespace == OrderedDict(body)
        inherit == IF NamespaceHas(namespace, "_inherit_fields")
                   THEN NamespaceItem(namespace, "_inherit_fields").v
                   ELSE FALSE
        inherited == IF inherit
                     THEN Concat([i \in DOMAIN bases |-> cls[bases[i]]._struct])
                     ELSE <<>>
        fields == inherited \o OwnFields(clsname, namespace)
        collided == Collided(fields, 1)
    IN IF Len(collided) > 0
       THEN [ok |-> FALSE,
             originals |-> Originals(clsname, namespace),
             exc |-> Exc("AttributeError",
                         <<"Struct", clsname, "has colliding field name(s):">>
                         \o collided)]
       ELSE IF BadSignature(fields)
       THEN [ok |-> FALSE,
             originals |-> Originals(clsname, namespace),
             exc |-> Exc("ValueError",
                         <<"non-default argument follows default argument">>)]
       ELSE [ok |-> TRUE,
             exc |-> NoExc,
             originals |-> Originals(clsname, namespace),
             cls |-> [name |-> clsname,
                      bases |-> bases,
                      ancestors |-> {clsname} \cup
                          UNION {cls[bases[i]].ancestors : i \in DOMAIN bases},
                      _struct |-> fields,
                      _immutable |->
                          IF NamespaceHas(namespace, "_immutable")
                          THEN NamespaceItem(namespace, "_immutable").v
                          ELSE InheritedImmutable(cls, bases),
                      init |->
                          IF NamespaceHas(namespace, "__init__")
                          THEN NamespaceItem(namespace, "__init__").code
                          ELSE InheritedInit(cls, bases)]]

---------------------------------------------------------------------------
(* Argument binding *)

Min(a, b) == IF a < b THEN a ELSE b

NoKw == <<>>

\* inspect.Signature.bind for positional-or-keyword parameters: positional
\* arguments are paired with the parameters in order, the remaining
\* parameters are taken from the keywords, and what is left over is an
\* error.  args is a sequence of values, kw a function name -> value.
Signature_bind(sig, args, kw) ==
    LET n == Len(sig)
        npos == Len(args)
        badpos == {i \in 1 .. npos : i > n \/ sig[i].name \in DOMAIN kw}
        firstbad == CHOOSE i \in badpos : \A j \in badpos : i <= j
        missing == {i \in (npos + 1) .. n :
                       sig[i].name \notin DOMAIN kw /\ ~has_default(sig[i])}
        firstmissing == CHOOSE i \in missing : \A j \in missing : i <= j
        unexpected == DOMAIN kw \ {sig[i].name : i \in 1 .. n}
        bound == {i \in 1 .. n : i <= npos \/ sig[i].name \in DOMAIN kw}
    IN IF badpos # {}
       THEN IF firstbad > n
            THEN Raise(Exc("TypeError", <<"too many positional arguments">>))
            ELSE Raise(Exc("TypeError", <<"multiple values for argument",
                                          sig[firstbad].name>>))
       ELSE IF missing # {}
       THEN Raise(Exc("TypeError", <<"missing a required argument:",
                                     sig[firstmissing].name>>))
       ELSE IF unexpected # {}
       THEN Raise(Exc("TypeError", <<"got an unexpected keyword argument",
                                     CHOOSE k \in unexpected : TRUE>>))
       ELSE Ok([name \in {sig[i].name : i \in bound} |->
                   LET i == CHOOSE j \in bound : sig[j].name = name
                   IN IF i <= npos THEN args[i] ELSE kw[name]])

\* A get_boundargs that fills an omitted parameter with 0, not with the
\* field's default.
get_boundargsZero(clsname, args, kw) ==
    LET sig == classes[clsname]._struct
        b == Signature_bind(sig, args, kw)
    IN IF ~b.ok THEN b
       ELSE Ok([name \in {sig[i].name : i \in DOMAIN sig} |->
                   IF name \in DOMAIN b.val THEN b.val[name] ELSE IntV(0)])

\* MetaStruct.get_boundargs: bind, then add the default of every parameter
\* that was not supplied.  The result maps every field name to its value.
get_boundargs(clsname, args, kw) ==
    LET sig == classes[clsname]._struct
        b == Signature_bind(sig, args, kw)
    IN IF ~b.ok THEN b
       ELSE Ok([name \in {sig[i].name : i \in DOMAIN sig} |->
                   IF name \in DOMAIN b.val THEN b.val[name]
                   ELSE (sig[CHOOSE i \in DOMAIN sig : sig[i].name = name]).default])

\* BoundArguments.args once the defaults are in: every parameter, in
\* signature order, as a positional argument.
boundargs_args(clsname, arguments) ==
    LET sig == classes[clsname]._struct
    IN [i \in DOMAIN sig |-> arguments[sig[i].name]]

---------------------------------------------------------------------------
(* Instances and the type checker *)

\* An instance that starts out marked initialized.
NewInstanceReady(clsname) == [cls |-> clsname, _initialized |-> TRUE, d |-> <<>>]

\* object.__new__(cls), then inst._initialized = False
NewInstance(clsname) == [cls |-> clsname, _initialized |-> FALSE, d |-> <<>>]

DictSet(d, key, v) == (key :> v) @@ d

IsStructType(t) == t \in DOMAIN classes

ClassOf(h, i) == classes[h[i].cls]

FieldNames(clsname) ==
    [i \in DOMAIN classes[clsname]._struct |-> classes[clsname]._struct[i].name]

\* getattr(inst, f.name) for every field, in schema order.
FieldValues(h, i) ==
    [p \in DOMAIN ClassOf(h, i)._struct |-> h[i].d[ClassOf(h, i)._struct[p].name]]

\* Every field of the instance has been assigned.
Populated(h, i) ==
    \A p \in DOMAIN ClassOf(h, i)._struct :
        ClassOf(h, i)._struct[p].name \in DOMAIN h[i].d

SetOk(h) == [ok |-> TRUE, heap |-> h, exc |-> NoExc]
SetRaise(h, e) == [ok |-> FALSE, heap |-> h, exc |-> e]

\* TypeChecker.str_valtype
str_valtype(h, v) ==
    IF v = NoneV THEN "None"
    ELSE IF v.k = "ref" THEN h[v.n].cls
    ELSE v.k

\* TypeChecker.str_kind
str_kind(kind) ==
    IF Len(kind) = 0 THEN <<"Nothing">>
    ELSE IF Len(kind) = 1 THEN <<kind[1]>>
    ELSE IF Len(kind) = 2 THEN <<kind[1], "or", kind[2]>>
    ELSE <<"one of {">> \o kind \o <<"}">>

\* An instance check that knows no subclasses of the built-in types.
isinstanceExact(h, v, kind) ==
    \E p \in DOMAIN kind :
        \/ kind[p] = "object"
        \/ v.k = "ref" /\ kind[p] \in ClassOf(h, v.n).ancestors
        \/ v.k # "ref" /\ kind[p] = v.k

\* isinstance(val, kind): the value's class is one of the kind's types or
\* a subclass of one.
isinstance(h, v, kind) ==
    \E p \in DOMAIN kind :
        \/ kind[p] = "object"
        \/ v.k = "ref" /\ kind[p] \in ClassOf(h, v.n).ancestors
        \/ v.k # "ref" /\ kind[p] = v.k
        \/ v.k = "bool" /\ kind[p] = "int"

\* TypeChecker.checktype
checktype(h, v, kind) ==
    IF isinstance(h, v, kind) THEN SetOk(h)
    ELSE SetRaise(h, Exc("TypeError",
             <<"Expected">> \o str_kind(kind) \o <<"; got", str_valtype(h, v)>>))

\* A setter that keeps the value in one place for all the instances of the
\* type (here: with the first of them), as a descriptor storing on itself
\* would.
Field__set__OnDescriptor(h, i, f, value) ==
    IF ClassOf(h, i)._immutable /\ h[i]._initialized
    THEN SetRaise(h, Exc("AttributeError", <<"Struct is immutable">>))
    ELSE SetOk([h EXCEPT ![CHOOSE j \in 1 .. Len(h) :
                             /\ h[j].cls = h[i].cls
                             /\ \A k \in 1 .. (j - 1) : h[k].cls # h[i].cls].d =
                             DictSet(@, f.name, value)])

\* Field.__set__: the write is refused once an immutable instance is
\* initialized; otherwise it stores into the instance's __dict__.
Field__set__(h, i, f, value) ==
    IF ClassOf(h, i)._immutable /\ h[i]._initialized
    THEN SetRaise(h, Exc("AttributeError", <<"Struct is immutable">>))
    ELSE SetOk([h EXCEPT ![i].d = DictSet(@, f.name, value)])

---------------------------------------------------------------------------
(* Hashing *)

\* x ^ y on Python's unbounded two's-complement integers.
RECURSIVE BitXor(_, _)
BitXor(x, y) ==
    IF x = 0 THEN y
    ELSE IF y = 0 THEN x
    ELSE IF x = -1 THEN (-y) - 1
    ELSE IF y = -1 THEN (-x) - 1
    ELSE 2 * BitXor(x \div 2, y \div 2) + (((x % 2) + (y % 2)) % 2)

\* A hash_seq that adds the hash values.
RECURSIVE hash_seqSum(_)
hash_seqSum(hs) ==
    IF hs = <<>> THEN 0
    ELSE hash_seqSum(SubSeq(hs, 1, Len(hs) - 1)) + hs[Len(hs)]

\* hash_seq: reduce(lambda x, y: x ^ y, seq, 0)
RECURSIVE hash_seq(_)
hash_seq(hs) ==
    IF hs = <<>> THEN 0
    ELSE BitXor(hash_seq(SubSeq(hs, 1, Len(hs) - 1)), hs[Len(hs)])

\* The builtin hash() of a small int, and of the int a __hash__ method
\* returns: the value itself, except that -1 is reserved and becomes -2.
PyHashInt(n) == IF n = -1 THEN -2 ELSE n

RECURSIVE PyHash(_, _)
RECURSIVE Struct__hash__(_, _)

\* Field.hash, and the CustomField.hash of the tests (int(val) * 2).
Field_hash(h, f, v) ==
    IF f.ftype = "CustomField"
    THEN IF v.k = "int" THEN Ok(v.n * 2)
         ELSE Raise(Exc("TypeError", <<"int() argument must be a number">>))
    ELSE PyHash(h, v)

\* The hashes of the fields p, p+1, ... of instance i; the first failure
\* ends the walk.
RECURSIVE HashFields(_, _, _)
HashFields(h, i, p) ==
    LET fs == ClassOf(h, i)._struct
    IN IF p > Len(fs) THEN Ok(<<>>)
       ELSE LET r == Field_hash(h, fs[p], h[i].d[fs[p].name])
            IN IF ~r.ok THEN r
               ELSE LET rest == HashFields(h, i, p + 1)
                    IN IF ~rest.ok THEN rest ELSE Ok(<<r.val>> \o rest.val)

\* A __hash__ by object identity, as object.__hash__ would give.
Struct__hash__Identity(h, i) == Ok(i)

\* A __hash__ that forgets the mutability check.
Struct__hash__NoMutableCheck(h, i) ==
    IF ~h[i]._initialized
    THEN Raise(Exc("TypeError", <<"Cannot hash uninitialized Struct", h[i].cls>>))
    ELSE LET r == HashFields(h, i, 1)
         IN IF ~r.ok THEN r ELSE Ok(hash_seq(r.val))

\* Struct.__hash__
Struct__hash__(h, i) ==
    IF ~ClassOf(h, i)._immutable
    THEN Raise(Exc("TypeError", <<"Cannot hash mutable Struct", h[i].cls>>))
    ELSE IF ~h[i]._initialized
    THEN Raise(Exc("TypeError", <<"Cannot hash uninitialized Struct", h[i].cls>>))
    ELSE LET r == HashFields(h, i, 1)
         IN IF ~r.ok THEN r ELSE Ok(hash_seq(r.val))

\* hash(v) for the values a field can hold.
PyHash(h, v) ==
    CASE v.k = "int" -> Ok(PyHashInt(v.n))
      [] v.k = "ref" -> LET r == Struct__hash__(h, v.n)
                        IN IF ~r.ok THEN r ELSE Ok(PyHashInt(r.val))

---------------------------------------------------------------------------
(* Equality *)

RECURSIVE PyEq(_, _, _)
RECURSIVE Struct__eq__(_, _, _)

\* Field.eq, and the CustomField.eq of the tests (val1 * val2 > 0).
Field_eq(h, f, v, w) ==
    IF f.ftype = "CustomField" THEN v.n * w.n > 0 ELSE PyEq(h, v, w)

\* An __eq__ that accepts an instance of a subclass as of the same type.
Struct__eq__Isinstance(h, i, j) ==
    IF i = j THEN "True"
    ELSE IF h[i].cls \notin ClassOf(h, j).ancestors THEN "NotImplemented"
    ELSE LET fs == ClassOf(h, i)._struct
         IN IF \A p \in DOMAIN fs :
                   Field_eq(h, fs[p], h[i].d[fs[p].name], h[j].d[fs[p].name])
            THEN "True" ELSE "False"

\* An __eq__ that compares every attribute of the two instances.
Struct__eq__Dict(h, i, j) ==
    IF i = j THEN "True"
    ELSE IF h[i].cls # h[j].cls THEN "NotImplemented"
    ELSE IF h[i].d = h[j].d THEN "True" ELSE "False"

\* Struct.__eq__: "True", "False" or "NotImplemented".
Struct__eq__(h, i, j) ==
    IF i = j THEN "True"
    ELSE IF h[i].cls # h[j].cls THEN "NotImplemented"
    ELSE LET fs == ClassOf(h, i)._struct
         IN IF \A p \in DOMAIN fs :
                   Field_eq(h, fs[p], h[i].d[fs[p].name], h[j].d[fs[p].name])
            THEN "True" ELSE "False"

\* v == w: the left operand's __eq__, then the reflected one, then
\* identity when both decline.
PyEq(h, v, w) ==
    IF v.k = "ref" /\ w.k = "ref"
    THEN LET r1 == Struct__eq__(h, v.n, w.n)
             r2 == Struct__eq__(h, w.n, v.n)
         IN IF r1 # "NotImplemented" THEN r1 = "True"
            ELSE IF r2 # "NotImplemented" THEN r2 = "True"
            ELSE v.n = w.n
    ELSE IF v.k \in {"int", "bool"} /\ w.k \in {"int", "bool"} THEN v.n = w.n
    ELSE IF v.k # w.k THEN FALSE
    ELSE IF v.k \in {"tuple", "list"}
    THEN /\ Len(v.items) = Len(w.items)
         /\ \A p \in DOMAIN v.items : PyEq(h, v.items[p], w.items[p])
    ELSE v.n = w.n

---------------------------------------------------------------------------
(* Printing *)

\* ', '.join(pieces)
RECURSIVE Join(_)
Join(pieces) ==
    IF pieces = <<>> THEN ""
    ELSE IF Len(pieces) = 1 THEN pieces[1]
    ELSE pieces[1] \o ", " \o Join(Tail(pieces))

\* The one-character strings of the model: StrV(n) is the n-th of them.
Chars == <<"a", "b", "c", "d">>

\* The greatest number of a set of naturals, 0 for the empty set.
MaxOf(S) == IF S = {} THEN 0 ELSE CHOOSE x \in S : \A y \in S : y <= x

\* The rendering functions are str and repr.  reprlib.recursive_repr keeps
\* one set of running instances for every function it decorates, so
\* __str__ and __repr__ have one each; the built-in list and tuple
\* renderings keep theirs (Py_ReprEnter).  A list or tuple object is told
\* apart by the place that holds it: the instance, the position of the
\* field, and the positions inside the enclosing lists.
NotRunning == [str |-> {}, repr |-> {}, seqs |-> {}]

\* A rendering: the text, and how deep renderings of instances were
\* nested inside one another to make it.
Text(t) == [text |-> t, depth |-> 0]

\* The k renderings joined by ", " between the opening and the closing.
Enclosed(open, parts, close) ==
    [text |-> open \o Join([p \in DOMAIN parts |-> parts[p].text]) \o close,
     depth |-> MaxOf({parts[p].depth : p \in DOMAIN parts})]

RECURSIVE fmt(_, _, _, _, _)

\* A helper that renders every field value by repr, whatever the mode.
Struct_fmt_helperLiteral(h, i, mode, running) ==
    LET fs == ClassOf(h, i)._struct
        body == Enclosed(h[i].cls \o "(",
                         [p \in DOMAIN fs |->
                             LET r == fmt(h, h[i].d[fs[p].name], "repr", running, <<i, p>>)
                             IN [text |-> fs[p].name \o "=" \o r.text, depth |-> r.depth]],
                         ")")
    IN [body EXCEPT !.depth = @ + 1]

\* Struct._fmt_helper: the body of __str__ (mode "str") and of __repr__
\* (mode "repr"), with the instance already among the running ones.
Struct_fmt_helper(h, i, mode, running) ==
    LET fs == ClassOf(h, i)._struct
        body == Enclosed(h[i].cls \o "(",
                         [p \in DOMAIN fs |->
                             LET r == fmt(h, h[i].d[fs[p].name], mode, running, <<i, p>>)
                             IN [text |-> fs[p].name \o "=" \o r.text, depth |-> r.depth]],
                         ")")
    IN [body EXCEPT !.depth = @ + 1]

\* The wrapper of reprlib.recursive_repr() around __str__ or __repr__: an
\* instance already running in this function gives the fill value '...'.
recursive_repr(h, i, mode, running) ==
    IF i \in running[mode] THEN Text("...")
    ELSE Struct_fmt_helper(h, i, mode, [running EXCEPT ![mode] = @ \cup {i}])

\* The built-in rendering of a list or tuple: its elements by repr,
\* whatever the function called on it, and a placeholder for a container
\* already running.
fmt_seq(h, v, running, path, open, close) ==
    IF path \in running.seqs THEN Text(open \o "..." \o close)
    ELSE Enclosed(open,
                  [p \in DOMAIN v.items |->
                      fmt(h, v.items[p], "repr",
                          [running EXCEPT !.seqs = @ \cup {path}], Append(path, p))],
                  IF v.k = "tuple" /\ Len(v.items) = 1 THEN ",)" ELSE close)

\* str(v) or repr(v), for the value held at path
fmt(h, v, mode, running, path) ==
    CASE v.k = "int" -> Text(ToString(v.n))
      [] v.k = "bool" -> Text(IF v.n = 1 THEN "True" ELSE "False")
      [] v.k = "NoneType" -> Text("None")
      [] v.k = "str" -> Text(IF mode = "str" THEN Chars[v.n + 1]
                             ELSE "'" \o Chars[v.n + 1] \o "'")
      [] v.k = "list" -> fmt_seq(h, v, running, path, "[", "]")
      [] v.k = "tuple" -> fmt_seq(h, v, running, path, "(", ")")
      [] v.k = "generator" -> Text("<generator object>")
      [] v.k = "ref" -> recursive_repr(h, v.n, mode, running)

\* str(inst)
Struct__str__(h, i) == recursive_repr(h, i, "str", NotRunning).text

\* repr(inst)
Struct__repr__(h, i) == recursive_repr(h, i, "repr", NotRunning).text

\* repr(v) of a value that is in no container
repr(h, v) == fmt(h, v, "repr", NotRunning, <<>>).text

---------------------------------------------------------------------------
(* Sequence checking *)

\* iter(seq) raises TypeError for a value that is not iterable, len(seq)
\* for one that has no length (a generator); a Struct instance has both.
iter_raises(seq) == seq.k \notin {"list", "tuple", "str", "generator", "ref"}
len_raises(seq) == seq.k \notin {"list", "tuple", "str", "ref"}

\* What iterating the value yields.
iter_items(h, seq) ==
    IF seq.k = "ref" THEN FieldValues(h, seq.n)
    ELSE IF seq.k = "str" THEN <<seq>>
    ELSE seq.items

\* The outcome of a check, with the number of elements it pulled from
\* iter(seq).
SeqOk(h, pulled) == [ok |-> TRUE, heap |-> h, exc |-> NoExc, pulled |-> pulled]
SeqRaise(h, e, pulled) == [ok |-> FALSE, heap |-> h, exc |-> e, pulled |-> pulled]

\* for i, item in enumerate(iterator): checktype(item, kind); the position
\* (from 1) of the first element that fails, 0 when none does.
RECURSIVE FirstMismatch(_, _, _, _)
FirstMismatch(h, items, kind, p) ==
    IF p > Len(items) THEN 0
    ELSE IF ~checktype(h, items[p], kind).ok THEN p
    ELSE FirstMismatch(h, items, kind, p + 1)

\* A uniqueness loop that remembers only the element just before.
RECURSIVE FirstSeenAdjacent(_, _, _)
FirstSeenAdjacent(h, items, p) ==
    IF p > Len(items) THEN 0
    ELSE IF p > 1 /\ PyEq(h, items[p - 1], items[p]) THEN p
    ELSE FirstSeenAdjacent(h, items, p + 1)

\* for i, item in enumerate(seq): if item in seen: raise; seen.append(item)
\* The position (from 1) of the first element found in seen, 0 when none is.
RECURSIVE FirstSeen(_, _, _)
FirstSeen(h, items, p) ==
    IF p > Len(items) THEN 0
    ELSE IF \E q \in 1 .. (p - 1) : PyEq(h, items[q], items[p]) THEN p
    ELSE FirstSeen(h, items, p + 1)

\* checktype_seq where the generator check len(seq) is missing.
checktype_seqNoLen(h, seq, kind, unique) ==
    LET exp == str_kind(kind)
        items == iter_items(h, seq)
        bad == FirstMismatch(h, items, kind, 1)
    IN IF iter_raises(seq)
       THEN SeqRaise(h, Exc("TypeError", <<"Expected sequence of">> \o exp
                 \o <<"; got", str_valtype(h, seq), "instead of sequence">>), 0)
       ELSE IF bad > 0
       THEN SeqRaise(h, Exc("TypeError", <<"Expected sequence of">> \o exp
                 \o <<"; got sequence with", str_valtype(h, items[bad]),
                      "at position", ToString(bad - 1)>>), bad)
       ELSE SeqOk(h, Len(items))

\* checktype_seq where the elements are compared before their types are
\* checked.
checktype_seqUniqueFirst(h, seq, kind, unique) ==
    LET exp == str_kind(kind)
        items == iter_items(h, seq)
        bad == FirstMismatch(h, items, kind, 1)
        dup == FirstSeen(h, items, 1)
    IN IF iter_raises(seq) \/ len_raises(seq)
       THEN SeqRaise(h, Exc("TypeError", <<"Expected sequence of">> \o exp
                 \o <<"; got", str_valtype(h, seq), "instead of sequence">>), 0)
       ELSE IF seq.k = "str"
       THEN SeqRaise(h, Exc("TypeError", <<"Expected sequence of">> \o exp
                 \o <<"; got single str (strings do not count as character sequences)">>), 0)
       ELSE IF unique /\ dup > 0
       THEN SeqRaise(h, Exc("TypeError",
                 <<"Duplicate element", repr(h, items[dup]),
                   "at position", ToString(dup - 1)>>), Len(items))
       ELSE IF bad > 0
       THEN SeqRaise(h, Exc("TypeError", <<"Expected sequence of">> \o exp
                 \o <<"; got sequence with", str_valtype(h, items[bad]),
                      "at position", ToString(bad - 1)>>), bad)
       ELSE SeqOk(h, Len(items))

\* TypeChecker.checktype_seq
checktype_seq(h, seq, kind, unique) ==
    LET exp == str_kind(kind)
        items == iter_items(h, seq)
        bad == FirstMismatch(h, items, kind, 1)
        dup == FirstSeen(h, items, 1)
    IN IF iter_raises(seq) \/ len_raises(seq)
       THEN SeqRaise(h, Exc("TypeError", <<"Expected sequence of">> \o exp
                 \o <<"; got", str_valtype(h, seq), "instead of sequence">>), 0)
       ELSE IF seq.k = "str"
       THEN SeqRaise(h, Exc("TypeError", <<"Expected sequence of">> \o exp
                 \o <<"; got single str (strings do not count as character sequences)">>), 0)
       ELSE IF bad > 0
       THEN SeqRaise(h, Exc("TypeError", <<"Expected sequence of">> \o exp
                 \o <<"; got sequence with", str_valtype(h, items[bad]),
                      "at position", ToString(bad - 1)>>), bad)
       ELSE IF unique /\ dup > 0
       THEN SeqRaise(h, Exc("TypeError",
                 <<"Duplicate element", repr(h, items[dup]),
                   "at position", ToString(dup - 1)>>), Len(items))
       ELSE SeqOk(h, Len(items))

\* tuple(value)
tuple(h, value) == TupV(iter_items(h, value))

---------------------------------------------------------------------------
(* Instantiation *)

\* Statements of the __init__ hooks used by the tests and examples.
StmtIncr(f) == [op |-> "incr", f |-> f, arg |-> 0]          \* self.f += 1
StmtExtra(a, p) == [op |-> "setextra", f |-> a, arg |-> p]  \* self.a = <p-th argument>
StmtHash == [op |-> "hashself", f |-> "", arg |-> 0]        \* hash(self)

CallOk(h, i) == [ok |-> TRUE, heap |-> h, id |-> i, exc |-> NoExc]
CallRaise(h, e) == [ok |-> FALSE, heap |-> h, id |-> 0, exc |-> e]

RECURSIVE TypedField__set__(_, _, _, _)
RECURSIVE setattr(_, _, _, _)
RECURSIVE NewLoop(_, _, _, _)
RECURSIVE InitLoop(_, _, _, _)
RECURSIVE MetaStruct__call__(_, _, _, _)

\* A check that takes no notice of or_none.
TypedField_checkStrict(h, f, value) ==
    IF f.seq THEN checktype_seq(h, value, f.kind, f.unique)
    ELSE checktype(h, value, f.kind)

\* TypedField.check
TypedField_check(h, f, value) ==
    IF f.or_none /\ value = NoneV THEN SetOk(h)
    ELSE IF f.seq THEN checktype_seq(h, value, f.kind, f.unique)
    ELSE checktype(h, value, f.kind)

\* A normalize that leaves every value as it is.
TypedField_normalizeKeep(h, f, value) == value

\* TypedField.normalize
TypedField_normalize(h, f, value) ==
    IF ~(f.or_none /\ value = NoneV) /\ f.seq THEN tuple(h, value) ELSE value

\* A typed field that coerces no tuple.
CoercesNever(f, value) == FALSE

\* The special case of TypedField.__set__: a tuple given to a non-sequence
\* field whose kind is one Struct type.
Coerces(f, value) ==
    /\ ~f.seq
    /\ Len(f.kind) = 1
    /\ IsStructType(f.kind[1])
    /\ value.k = "tuple"

\* TypedField.__set__ after the coercion: check, normalize, then
\* Field.__set__ on heap h1; a failure leaves the heap h of the caller.
SetChecked(h, h1, i, f, v1) ==
    LET chk == TypedField_check(h1, f, v1)
        r == Field__set__(h1, i, f, TypedField_normalize(h1, f, v1))
    IN IF ~chk.ok THEN SetRaise(h, chk.exc)
       ELSE IF r.ok THEN r ELSE SetRaise(h, r.exc)

\* TypedField.__set__ with c the outcome of self.kind[0](*value).
SetCoerced(h, i, f, c) ==
    IF ~c.ok THEN SetRaise(h, c.exc)
    ELSE SetChecked(h, c.heap, i, f, RefV(c.id))

\* TypedField.__set__: coerce, check, normalize, then Field.__set__.
TypedField__set__(h, i, f, value) ==
    IF Coerces(f, value)
    THEN SetCoerced(h, i, f, MetaStruct__call__(h, f.kind[1], value.items, NoKw))
    ELSE SetChecked(h, h, i, f, value)

\* setattr(inst, name, value): a field name goes through its descriptor,
\* any other name is an ordinary instance attribute.
setattr(h, i, name, value) ==
    LET fs == ClassOf(h, i)._struct
    IN IF \E p \in DOMAIN fs : fs[p].name = name
       THEN LET f == fs[CHOOSE p \in DOMAIN fs : fs[p].name = name]
            IN IF f.ftype = "TypedField"
               THEN TypedField__set__(h, i, f, value)
               ELSE Field__set__(h, i, f, value)
       ELSE SetOk([h EXCEPT ![i].d = DictSet(@, name, value)])

\* The except clause of Struct.__new__ inside the loop: a TypeError from
\* the setter (outcome r) is re-raised as the construction error naming
\* the class and the field, chained to its cause.
WrapTypeError(h, i, f, r) ==
    IF r.ok \/ r.exc.etype # "TypeError" THEN r
    ELSE SetRaise(h, [etype |-> "TypeError",
                      msg |-> <<"Error constructing", h[i].cls,
                                "(field", f.name, ")", ":">> \o r.exc.msg,
                      cause |-> r.exc])

\* A loop round that lets the setter's error through as it is.
NewWriteFieldUnwrapped(h, i, pos, arguments) ==
    setattr(h, i, ClassOf(h, i)._struct[pos].name,
            arguments[ClassOf(h, i)._struct[pos].name])

\* One round of the loop of Struct.__new__: assign the field at position
\* pos.
NewWriteField(h, i, pos, arguments) ==
    WrapTypeError(h, i, ClassOf(h, i)._struct[pos],
                  setattr(h, i, ClassOf(h, i)._struct[pos].name,
                          arguments[ClassOf(h, i)._struct[pos].name]))

\* The loop of Struct.__new__ after the round at position pos (outcome r).
NewLoopNext(i, pos, arguments, r) ==
    IF ~r.ok THEN r ELSE NewLoop(r.heap, i, pos + 1, arguments)

\* The loop of Struct.__new__ from position pos on.
NewLoop(h, i, pos, arguments) ==
    IF pos > Len(ClassOf(h, i)._struct) THEN SetOk(h)
    ELSE NewLoopNext(i, pos, arguments, NewWriteField(h, i, pos, arguments))

\* hash(self) as a statement: the value is dropped, an exception is not.
HashStmt(h, r) == IF r.ok THEN SetOk(h) ELSE SetRaise(h, r.exc)

\* One statement of the __init__ hook.
InitStmt(h, i, stmt, args) ==
    CASE stmt.op = "incr" ->
            IF h[i].d[stmt.f].k = "int"
            THEN setattr(h, i, stmt.f, IntV(h[i].d[stmt.f].n + 1))
            ELSE SetRaise(h, Exc("TypeError", <<"unsupported operand type(s) for +=">>))
      [] stmt.op = "setextra" -> setattr(h, i, stmt.f, args[stmt.arg])
      [] stmt.op = "hashself" -> HashStmt(h, PyHash(h, RefV(i)))

\* The __init__ hook after statement pc (outcome r).
InitLoopNext(i, pc, args, r) ==
    IF ~r.ok THEN r ELSE InitLoop(r.heap, i, pc + 1, args)

\* The __init__ hook from statement pc on.
InitLoop(h, i, pc, args) ==
    IF pc > Len(ClassOf(h, i).init) THEN SetOk(h)
    ELSE InitLoopNext(i, pc, args, InitStmt(h, i, ClassOf(h, i).init[pc], args))

\* MetaStruct.__call__ after __init__ (outcome r2): mark the instance
\* initialized and return it.
CallInit(h, i, r2) ==
    IF ~r2.ok THEN CallRaise(h, r2.exc)
    ELSE CallOk([r2.heap EXCEPT ![i]._initialized = TRUE], i)

\* MetaStruct.__call__ after Struct.__new__ (outcome r1): run __init__ on
\* the positional arguments pargs.
CallNew(h, pargs, r1) ==
    IF ~r1.ok THEN CallRaise(h, r1.exc)
    ELSE CallInit(h, Len(h) + 1, InitLoop(r1.heap, Len(h) + 1, 1, pargs))

\* MetaStruct.__call__ after binding (outcome b): Struct.__new__ allocates
\* the instance, marks it not initialized, binds the positional arguments
\* again and assigns the fields.
CallBound(h, clsname, b) ==
    IF ~b.ok THEN CallRaise(h, b.exc)
    ELSE CallNew(h, boundargs_args(clsname, b.val),
                 NewLoop(Append(h, NewInstance(clsname)), Len(h) + 1, 1,
                         get_boundargs(clsname, boundargs_args(clsname, b.val),
                                       NoKw).val))

\* MetaStruct.__call__ as one call: bind the arguments, Struct.__new__,
\* __init__, then mark initialized.  A failure leaves no instance behind.
MetaStruct__call__(h, clsname, args, kw) ==
    CallBound(h, clsname, get_boundargs(clsname, args, kw))

---------------------------------------------------------------------------
(* Item assignment *)

\* A subscript: an integer, or a slice start:stop:step; hs / he tell
\* whether start / stop are given (an omitted bound is None).
IntIndex(n) ==
    [t |-> "int", i |-> n, hs |-> FALSE, start |-> 0, he |-> FALSE, stop |-> 0, step |-> 1]
SliceAll(step) ==
    [t |-> "slice", i |-> 0, hs |-> FALSE, start |-> 0, he |-> FALSE, stop |-> 0, step |-> step]
Slice(start, stop, step) ==
    [t |-> "slice", i |-> 0, hs |-> TRUE, start |-> start, he |-> TRUE, stop |-> stop, step |-> step]

Clamp(x, lo, hi) == IF x < lo THEN lo ELSE IF x > hi THEN hi ELSE x

\* slice.indices(n): the positions (0-based) a slice selects in a sequence
\* of length n.
SliceStart(sl, n) ==
    IF ~sl.hs THEN (IF sl.step > 0 THEN 0 ELSE n - 1)
    ELSE LET x == IF sl.start < 0 THEN sl.start + n ELSE sl.start
         IN IF sl.step > 0 THEN Clamp(x, 0, n) ELSE Clamp(x, -1, n - 1)

SliceStop(sl, n) ==
    IF ~sl.he THEN (IF sl.step > 0 THEN n ELSE -1)
    ELSE LET x == IF sl.stop < 0 THEN sl.stop + n ELSE sl.stop
         IN IF sl.step > 0 THEN Clamp(x, 0, n) ELSE Clamp(x, -1, n - 1)

RECURSIVE SliceWalk(_, _, _)
SliceWalk(x, stop, step) ==
    IF (step > 0 /\ x >= stop) \/ (step < 0 /\ x <= stop) THEN <<>>
    ELSE <<x>> \o SliceWalk(x + step, stop, step)

SliceIndices(sl, n) == SliceWalk(SliceStart(sl, n), SliceStop(sl, n), sl.step)

\* A loop that validates every value before it writes the first one.
RECURSIVE SetItemLoopChecked(_, _, _, _, _)
SetItemLoopChecked(h, i, fnames, values, p) ==
    LET bad == {q \in p .. Len(fnames) : ~setattr(h, i, fnames[q], values[q]).ok}
        first == CHOOSE q \in bad : \A q2 \in bad : q <= q2
    IN IF bad # {} THEN SetRaise(h, setattr(h, i, fnames[first], values[first]).exc)
       ELSE IF p > Len(fnames) THEN SetOk(h)
       ELSE SetItemLoopChecked(setattr(h, i, fnames[p], values[p]).heap,
                               i, fnames, values, p + 1)

\* for fname, v in zip(fnames, values): setattr(self, fname, v)
RECURSIVE SetItemLoop(_, _, _, _, _)
SetItemLoop(h, i, fnames, values, p) ==
    IF p > Len(fnames) THEN SetOk(h)
    ELSE LET r == setattr(h, i, fnames[p], values[p])
         IN IF ~r.ok THEN r ELSE SetItemLoop(r.heap, i, fnames, values, p + 1)

\* A slice assignment that pairs names and values with zip() without
\* comparing their numbers first.
Struct__setitem__Zip(h, i, index, value) ==
    LET names == FieldNames(h[i].cls)
        n == Len(names)
    IN IF index.t = "slice"
       THEN LET sel == SliceIndices(index, n)
                fnames == [p \in DOMAIN sel |-> names[sel[p] + 1]]
                values == value.items
                m == Min(Len(fnames), Len(values))
            IN SetItemLoop(h, i, SubSeq(fnames, 1, m), SubSeq(values, 1, m), 1)
       ELSE LET pos == IF index.i < 0 THEN index.i + n ELSE index.i
            IN IF pos < 0 \/ pos >= n
               THEN SetRaise(h, Exc("IndexError", <<"tuple index out of range">>))
               ELSE setattr(h, i, names[pos + 1], value)

\* Struct.__setitem__; for a slice, value is a tuple of values.
Struct__setitem__(h, i, index, value) ==
    LET names == FieldNames(h[i].cls)
        n == Len(names)
    IN IF index.t = "slice"
       THEN LET sel == SliceIndices(index, n)
                fnames == [p \in DOMAIN sel |-> names[sel[p] + 1]]
                values == value.items
            IN IF Len(values) < Len(fnames)
               THEN SetRaise(h, Exc("ValueError", <<"need more than", "to unpack">>))
               ELSE IF Len(values) > Len(fnames)
               THEN SetRaise(h, Exc("ValueError", <<"too many values to unpack">>))
               ELSE SetItemLoop(h, i, fnames, values, 1)
       ELSE LET pos == IF index.i < 0 THEN index.i + n ELSE index.i
            IN IF pos < 0 \/ pos >= n
               THEN SetRaise(h, Exc("IndexError", <<"tuple index out of range">>))
               ELSE setattr(h, i, names[pos + 1], value)

\* Struct.__len__
Struct__len__(h, i) == Len(ClassOf(h, i)._struct)

\* Struct.__iter__, as the sequence of what the generator yields
Struct__iter__(h, i) ==
    [p \in DOMAIN ClassOf(h, i)._struct |-> h[i].d[ClassOf(h, i)._struct[p].name]]

\* An indexing that takes the subscript as a position from 1.
Struct__getitem__FromOne(h, i, index) ==
    LET values == Struct__iter__(h, i)
    IN IF index.t = "int" /\ index.i \in DOMAIN values THEN Ok(values[index.i])
       ELSE Raise(Exc("IndexError", <<"tuple index out of range">>))

\* Struct.__getitem__: tuple(getattr(self, f.name) for f in self._struct)[index]
Struct__getitem__(h, i, index) ==
    LET values == Struct__iter__(h, i)
        n == Len(values)
    IN IF index.t = "slice"
       THEN LET sel == SliceIndices(index, n)
            IN Ok(TupV([p \in DOMAIN sel |-> values[sel[p] + 1]]))
       ELSE LET pos == IF index.i < 0 THEN index.i + n ELSE index.i
            IN IF pos < 0 \/ pos >= n
               THEN Raise(Exc("IndexError", <<"tuple index out of range">>))
               ELSE Ok(values[pos + 1])

\* Struct._asdict: the OrderedDict as its sequence of (name, value) items
Struct_asdict(h, i) ==
    [p \in DOMAIN ClassOf(h, i)._struct |->
        <<ClassOf(h, i)._struct[p].name, h[i].d[ClassOf(h, i)._struct[p].name]>>]

\* A _replace whose overrides lose against the current field values.
Struct_replaceKeepsCurrent(h, i, kargs) ==
    LET names == FieldNames(h[i].cls)
        fields == [name \in Range(names) |-> h[i].d[name]]
    IN MetaStruct__call__(h, h[i].cls, <<>>, fields @@ kargs)

\* Struct._replace: the current field values by name, updated with the
\* overrides, are the keyword arguments of a call of type(self).
Struct_replace(h, i, kargs) ==
    LET names == FieldNames(h[i].cls)
        fields == [name \in Range(names) |-> h[i].d[name]]
    IN MetaStruct__call__(h, h[i].cls, <<>>, kargs @@ fields)

\* Struct.__reduce_ex__: the class and the tuple of field values; pickle
\* and copy rebuild the instance by calling the class on them.
Struct__reduce_ex__(h, i) == [cls |-> h[i].cls, args |-> FieldValues(h, i)]

---------------------------------------------------------------------------
(* The declared Struct types *)

ClassDecl(name, bases, body) == [name |-> name, bases |-> bases, body |-> body]

\* Run the class statements in order; every one of them compiles.
RECURSIVE CompileAll(_)
CompileAll(decls) ==
    IF decls = <<>> THEN <<>>
    ELSE LET n == Len(decls)
             before == CompileAll(SubSeq(decls, 1, n - 1))
             d == decls[n]
         IN (d.name :> MetaStruct__new__(before, d.name, d.bases, d.body).cls) @@ before

\* tests/test_struct.py, test_mutability, test_custom_eq_hash and
\* test_inheritance.
CoreDecls ==
    << ClassDecl("Foo", <<>>,
           <<DeclField("bar", Field)>>),
       ClassDecl("MutFoo", <<>>,
           <<DeclFlag("_immutable", FALSE), DeclField("bar", Field)>>),
       ClassDecl("IncFoo", <<>>,
           <<DeclField("bar", Field), DeclInit(<<StmtIncr("bar")>>)>>),
       ClassDecl("FooB", <<>>,
           <<DeclField("bar", CustomField)>>) >>

\* tests/test_struct.py, test_inheritance: a parent, a child that inherits
\* exactly the parent's fields, and the custom-eq class; the parent's hook
\* sets a non-field attribute.
InheritDecls ==
    << ClassDecl("Parent", <<>>,
           <<DeclField("a", Field), DeclInit(<<StmtExtra("c", 1)>>)>>),
       ClassDecl("Child", <<"Parent">>,
           <<DeclFlag("_inherit_fields", TRUE)>>),
       ClassDecl("FooB", <<>>,
           <<DeclField("bar", CustomField)>>) >>

\* tests/test_fields.py, test_NestedStruct: Bar, an owner with a field of
\* kind Bar, and a mutable owner of one.
NestedDecls ==
    << ClassDecl("Bar", <<>>,
           <<DeclField("a", Field), DeclInit(<<StmtExtra("c", 1)>>)>>),
       ClassDecl("Owner", <<>>,
           <<DeclField("a", Field), DeclField("b", TypedField(Type("Bar")))>>),
       ClassDecl("MutOwner", <<>>,
           <<DeclFlag("_immutable", FALSE), DeclField("b", TypedField(Type("Bar")))>>) >>

\* tests/test_struct.py, test_construct: a field without default followed
\* by a field with one; Defaults' hook keeps its argument in a non-field
\* attribute, Rewrites' hook writes the defaulted field.
DefaultD == IntV(2)

DefaultsDecls ==
    << ClassDecl("Defaults", <<>>,
           <<DeclField("a", Field), DeclField("b", FieldDefault(DefaultD)),
             DeclInit(<<StmtExtra("c", 2)>>)>>),
       ClassDecl("Rewrites", <<>>,
           <<DeclField("a", Field), DeclField("b", FieldDefault(DefaultD)),
             DeclInit(<<StmtExtra("c", 2), StmtIncr("b")>>)>>) >>

\* tests/test_fields.py, test_TypedField, and examples/typed.py: a plain
\* typed field, a field of any type, a sequence without duplicates, a
\* sequence of anything, an optional field, and an optional sequence
\* without duplicates.
TypedDecls ==
    << ClassDecl("IntFoo", <<>>,
           <<DeclField("bar", TypedField(Type("int")))>>),
       ClassDecl("AnyFoo", <<>>,
           <<DeclField("bar", TypedField(KindNone))>>),
       ClassDecl("Ids", <<>>,
           <<DeclField("vals", TypedFieldOpts(Type("int"), TRUE, TRUE, FALSE))>>),
       ClassDecl("Array", <<>>,
           <<DeclFlag("_immutable", FALSE),
             DeclField("vals", TypedFieldOpts(KindNone, TRUE, FALSE, FALSE))>>),
       ClassDecl("OptFoo", <<>>,
           <<DeclFlag("_immutable", FALSE),
             DeclField("bar", TypedFieldOpts(Type("int"), FALSE, FALSE, TRUE))>>),
       ClassDecl("OptIds", <<>>,
           <<DeclFlag("_immutable", FALSE),
             DeclField("vals", TypedFieldOpts(Type("int"), TRUE, TRUE, TRUE))>>) >>

\* tests/test_struct.py, test_indexing and test_asdict, and
\* examples/vector.py: an immutable type of two fields whose hook keeps its
\* first argument in a non-field attribute, and a mutable type of two
\* fields.
ItemDecls ==
    << ClassDecl("Bar", <<>>,
           <<DeclField("a", Field), DeclField("b", Field),
             DeclInit(<<StmtExtra("m", 1)>>)>>),
       ClassDecl("MutBar", <<>>,
           <<DeclFlag("_immutable", FALSE),
             DeclField("a", Field), DeclField("b", Field)>>) >>

\* examples/point.py and tests/test_struct.py, test_replace and
\* test_construct: a point, a mutable point, a type whose hook keeps its
\* second argument in a non-field attribute and rewrites its defaulted
\* field, and a type with a typed field.
ReplaceDecls ==
    << ClassDecl("SPoint", <<>>,
           <<DeclField("x", Field), DeclField("y", Field)>>),
       ClassDecl("MutPoint", <<>>,
           <<DeclFlag("_immutable", FALSE),
             DeclField("x", Field), DeclField("y", Field)>>),
       ClassDecl("Rewrites", <<>>,
           <<DeclField("a", Field), DeclField("b", FieldDefault(DefaultD)),
             DeclInit(<<StmtExtra("c", 2), StmtIncr("b")>>)>>),
       ClassDecl("IntFoo", <<>>,
           <<DeclField("bar", TypedField(Type("int")))>>) >>

\* tests/test_struct.py, test_recur and test_Struct: a mutable type of one
\* field, which can be made to hold itself, and an immutable one.
RenderDecls ==
    << ClassDecl("Foo", <<>>,
           <<DeclFlag("_immutable", FALSE), DeclField("a", Field)>>),
       ClassDecl("Bar", <<>>,
           <<DeclField("bar", Field)>>) >>

\* tests/test_struct.py, test_mutability and test_construct, with a typed
\* field: an immutable type of a plain and a typed field whose hook
\* rewrites the plain one, an immutable type whose hook hashes the
\* instance, and a mutable type.
OrderDecls ==
    << ClassDecl("Pair", <<>>,
           <<DeclField("a", Field), DeclField("b", TypedField(Type("int"))),
             DeclInit(<<StmtIncr("a")>>)>>),
       ClassDecl("HashFoo", <<>>,
           <<DeclField("bar", Field), DeclInit(<<StmtHash>>)>>),
       ClassDecl("MutFoo", <<>>,
           <<DeclFlag("_immutable", FALSE), DeclField("bar", Field)>>) >>

\* tests/test_struct.py, test_custom_eq_hash, and examples/point.py: a
\* type without fields, FooA and FooB, a point, and a type whose two
\* fields use different hash strategies.
HashDecls ==
    << ClassDecl("Empty", <<>>, <<>>),
       ClassDecl("FooA", <<>>,
           <<DeclField("bar", Field)>>),
       ClassDecl("FooB", <<>>,
           <<DeclField("bar", CustomField)>>),
       ClassDecl("SPoint", <<>>,
           <<DeclField("x", Field), DeclField("y", Field)>>),
       ClassDecl("Mixed", <<>>,
           <<DeclField("x", Field), DeclField("y", CustomField)>>) >>

\* examples/typed.py and tests/test_struct.py, test_indexing: a mutable
\* type of two typed fields.
SliceDecls ==
    << ClassDecl("MutPair", <<>>,
           <<DeclFlag("_immutable", FALSE),
             DeclField("a", TypedField(Type("int"))),
             DeclField("b", TypedField(Type("int")))>>) >>

---------------------------------------------------------------------------
(* The state machine *)

Idle == [phase |-> "idle", id |-> 0, pos |-> 0, pc |-> 0, args |-> <<>>]

Last(op, id, ok, exc, info) ==
    [op |-> op, id |-> id, ok |-> ok, exc |-> exc, info |-> info]

Ids == 1 .. Len(heap)

Refs == {RefV(i) : i \in {j \in Ids : heap[j]._initialized}}

TupVals ==
    {TupV(<<>>)} \cup {TupV(<<v>>) : v \in IntVals}
                 \cup {TupV(<<v, IntV(0)>>) : v \in IntVals}

\* The values without elements offered to typed fields, those offered as
\* elements, and the lists of at most n elements.
Atoms == IntVals \cup {BoolV(TRUE), StrV(0), NoneV}

Elements == {IntV(0), IntV(1), BoolV(TRUE), StrV(0), NoneV}

RECURSIVE AtomLists(_)
AtomLists(n) ==
    IF n = 0 THEN {<<>>}
    ELSE AtomLists(n - 1) \cup {Append(s, v) : s \in AtomLists(n - 1), v \in Elements}

\* The lists of the tests and examples on duplicates, and two lists that
\* hold a duplicate as well as elements of another type.
ExampleLists ==
    { <<IntV(1), IntV(2), IntV(3), IntV(2)>>, <<IntV(5), IntV(3), IntV(5), IntV(8)>>,
      <<IntV(1), IntV(2), IntV(3), IntV(4)>>, <<IntV(1), IntV(2), IntV(1)>>,
      <<IntV(1), IntV(1), StrV(0)>>, <<StrV(0), IntV(1), StrV(0)>> }

\* The values offered to a typed field whose kind is no Struct type.
TypedVals ==
    Atoms \cup {ListV(s) : s \in AtomLists(MaxSeq) \cup ExampleLists}
          \cup {TupV(s) : s \in AtomLists(MaxSeq)}
          \cup {GenV(s) : s \in AtomLists(1)}

\* The values offered to a field.
ArgVals(f) ==
    IF f.ftype = "CustomField" THEN IntVals
    ELSE IF f.ftype = "TypedField"
    THEN (IF Len(f.kind) = 1 /\ IsStructType(f.kind[1])
          THEN Refs \cup TupVals \cup {IntV(0)}
          ELSE TypedVals)
    ELSE IntVals \cup Refs

\* Every list of values for the first n fields.
RECURSIVE ArgLists(_, _)
ArgLists(fs, n) ==
    IF n = 0 THEN {<<>>}
    ELSE {Append(a, v) : a \in ArgLists(fs, n - 1), v \in ArgVals(fs[n])}

Zeros(n) == [p \in 1 .. n |-> IntV(0)]

CallOf(args, kw) == [args |-> args, kw |-> kw]

\* The calls offered to a class with fields fs.  Well-formed calls: every
\* field positionally, the last field left out, or the last field by
\* keyword.  Ill-formed calls: one positional argument too many, a keyword
\* that is no field, and a keyword for a field also given positionally.
Calls(clsname) ==
    LET fs == classes[clsname]._struct
        n == Len(fs)
    IN {CallOf(a, NoKw) : a \in ArgLists(fs, n)}
       \cup (IF n = 0 THEN {}
             ELSE {CallOf(a, NoKw) : a \in ArgLists(fs, n - 1)}
                  \cup {CallOf(a, fs[n].name :> IntV(1)) : a \in ArgLists(fs, n - 1)}
                  \cup {CallOf(Zeros(n), fs[1].name :> IntV(1))})
       \cup {CallOf(Zeros(n + 1), NoKw), CallOf(Zeros(n), "zz" :> IntV(1))}

InitWith(decls) ==
    /\ classes = CompileAll(decls)
    /\ heap = <<>>
    /\ cur = Idle
    /\ last = Last("none", 0, TRUE, NoExc, <<>>)

\* cls(*args, **kw), first part: MetaStruct.__call__ binds the arguments
\* (a failure ends the call), then Struct.__new__ allocates the instance
\* and marks it not initialized.
Call(clsname, args, kw) ==
    /\ cur.phase = "idle"
    /\ LET b == get_boundargs(clsname, args, kw)
       IN IF ~b.ok
          THEN /\ last' = Last("call", 0, FALSE, b.exc,
                               [cls |-> clsname, args |-> args, kw |-> kw])
               /\ UNCHANGED <<heap, cur>>
          ELSE /\ Len(heap) < MaxInst
               /\ heap' = Append(heap, NewInstance(clsname))
               /\ cur' = [phase |-> "new", id |-> Len(heap) + 1, pos |-> 1, pc |-> 1,
                          args |-> boundargs_args(clsname, b.val)]
               /\ last' = Last("new", Len(heap) + 1, TRUE, NoExc,
                               [cls |-> clsname, args |-> args, kw |-> kw])
    /\ UNCHANGED classes

\* The instantiation in progress fails: the instance (and whatever was
\* built for it) is dropped and the exception reaches the caller.
Fail(exc) ==
    /\ heap' = SubSeq(heap, 1, cur.id - 1)
    /\ cur' = Idle
    /\ last' = Last("call", 0, FALSE, exc, last.info)

\* Struct.__new__, one field: setattr(inst, f.name, boundargs.arguments[f.name])
NewStep ==
    /\ cur.phase = "new"
    /\ cur.pos <= Len(ClassOf(heap, cur.id)._struct)
    /\ LET arguments == get_boundargs(heap[cur.id].cls, cur.args, NoKw).val
           r == NewWriteField(heap, cur.id, cur.pos, arguments)
       IN IF r.ok
          THEN /\ Len(r.heap) <= MaxInst
               /\ heap' = r.heap
               /\ cur' = [cur EXCEPT !.pos = @ + 1]
               /\ last' = [last EXCEPT !.op = "write"]
          ELSE Fail(r.exc)
    /\ UNCHANGED classes

\* type.__call__ runs __init__ after __new__: one statement of the hook.
InitStep ==
    /\ cur.phase = "new"
    /\ cur.pos > Len(ClassOf(heap, cur.id)._struct)
    /\ cur.pc <= Len(ClassOf(heap, cur.id).init)
    /\ LET r == InitStmt(heap, cur.id, ClassOf(heap, cur.id).init[cur.pc], cur.args)
       IN IF r.ok
          THEN /\ heap' = r.heap
               /\ cur' = [cur EXCEPT !.pc = @ + 1]
               /\ last' = [last EXCEPT !.op = "init"]
          ELSE Fail(r.exc)
    /\ UNCHANGED classes

\* MetaStruct.__call__, last part: inst._initialized = True; return inst
Finish ==
    /\ cur.phase = "new"
    /\ cur.pos > Len(ClassOf(heap, cur.id)._struct)
    /\ cur.pc > Len(ClassOf(heap, cur.id).init)
    /\ heap' = [heap EXCEPT ![cur.id]._initialized = TRUE]
    /\ cur' = Idle
    /\ last' = Last("call", cur.id, TRUE, NoExc, last.info)
    /\ UNCHANGED classes

\* A write may build one instance more (by coercing a tuple) than the calls
\* may leave alive.
WriteCap == MaxInst + 1

\* inst.name = value, by the user of a finished instance.  A reference is
\* only stored where it closes no cycle.
RECURSIVE Reaches(_, _, _)
Reaches(h, i, j) ==
    \/ i = j
    \/ \E key \in DOMAIN h[i].d :
          h[i].d[key].k = "ref" /\ Reaches(h, h[i].d[key].n, j)

NoCycle(i, v) == v.k = "ref" => ~Reaches(heap, v.n, i)

\* The write constructs an instance of the field's kind from a tuple:
\* value = self.kind[0](*value) in TypedField.__set__ returns.
Builds(h, i, name, value) ==
    \E p \in DOMAIN ClassOf(h, i)._struct :
        /\ ClassOf(h, i)._struct[p].name = name
        /\ ClassOf(h, i)._struct[p].ftype = "TypedField"
        /\ Coerces(ClassOf(h, i)._struct[p], value)
        /\ MetaStruct__call__(h, ClassOf(h, i)._struct[p].kind[1], value.items, NoKw).ok

\* inst.name = value, whatever the value
SetAttrAny(i, name, value) ==
    /\ cur.phase = "idle"
    /\ LET r == setattr(heap, i, name, value)
       IN /\ Len(r.heap) <= WriteCap
          /\ heap' = r.heap
          /\ last' = Last("setattr", i, r.ok, r.exc,
                          [name |-> name, value |-> value,
                           built |-> Builds(heap, i, name, value)])
    /\ UNCHANGED <<classes, cur>>

\* inst.name = value where the value closes no cycle
SetAttr(i, name, value) ==
    /\ NoCycle(i, value)
    /\ SetAttrAny(i, name, value)

\* inst[index] = value
SetItem(i, index, value) ==
    /\ cur.phase = "idle"
    /\ LET r == Struct__setitem__(heap, i, index, value)
       IN /\ Len(r.heap) <= MaxInst
          /\ heap' = r.heap
          /\ last' = Last("setitem", i, r.ok, r.exc,
                          [index |-> index, value |-> value])
    /\ UNCHANGED <<classes, cur>>

\* hash(inst), by the user or by the hook of the instance being built
Hash(i) ==
    /\ LET r == PyHash(heap, RefV(i))
       IN last' = Last("hash", i, r.ok, r.exc, [val |-> r.val])
    /\ UNCHANGED <<classes, heap, cur>>

\* a == b
Eq(i, j) ==
    /\ Populated(heap, i) /\ Populated(heap, j)
    /\ last' = Last("eq", i, TRUE, NoExc,
                    [other |-> j, res |-> PyEq(heap, RefV(i), RefV(j))])
    /\ UNCHANGED <<classes, heap, cur>>

\* copy.deepcopy(inst) / pickle round trip: the class called on the
\* reduced field values.
Copy(i) ==
    /\ cur.phase = "idle"
    /\ LET red == Struct__reduce_ex__(heap, i)
           r == MetaStruct__call__(heap, red.cls, red.args, NoKw)
       IN /\ Len(r.heap) <= MaxInst
          /\ heap' = r.heap
          /\ last' = Last("copy", i, r.ok, r.exc, [res |-> r.id])
    /\ UNCHANGED <<classes, cur>>

\* The subscripts and slice values offered to item assignment.
Indexes == {IntIndex(0), IntIndex(-1), IntIndex(2), SliceAll(1), SliceAll(-1), Slice(0, 0, 1)}

ItemVals(index, fs) ==
    IF index.t = "int" THEN {IntV(0), StrV(0)}
    ELSE {TupV(<<>>)} \cup {TupV([p \in 1 .. n |-> IntV(p - 1)]) : n \in 1 .. (Len(fs) + 1)}

\* The client program is any sequence of operations; it ends with its
\* first observation (hash, ==) or with the first exception that reaches
\* it, which the state then records in last.
Halted == last.op \in {"hash", "eq"} \/ ~last.ok

Next ==
    /\ ~Halted
    /\ \/ \E c \in DOMAIN classes : \E call \in Calls(c) :
              Call(c, call.args, call.kw)
       \/ NewStep
       \/ InitStep
       \/ Finish
       \/ \E i \in Ids : \E p \in DOMAIN ClassOf(heap, i)._struct :
              \E v \in ArgVals(ClassOf(heap, i)._struct[p]) :
                  SetAttr(i, ClassOf(heap, i)._struct[p].name, v)
       \/ \E i \in Ids : Hash(i)
       \/ \E i, j \in Ids : Eq(i, j)
       \/ \E i \in Ids : Copy(i)

Spec == InitWith(CoreDecls) /\ [][Next]_vars

SpecInherit == InitWith(InheritDecls) /\ [][Next]_vars

SpecNested == InitWith(NestedDecls) /\ [][Next]_vars

\* Programs that make one instantiation.
NextConstruct ==
    /\ ~Halted
    /\ \/ /\ heap = <<>>
          /\ \E c \in DOMAIN classes : \E call \in Calls(c) :
                 Call(c, call.args, call.kw)
       \/ NewStep
       \/ InitStep
       \/ Finish

SpecDefaults == InitWith(DefaultsDecls) /\ [][NextConstruct]_vars

\* The subscripts read by test_indexing, besides those assigned.
GetIndexes ==
    Indexes \cup {IntIndex(1), IntIndex(-2), IntIndex(-3), Slice(0, 2, 1), Slice(0, 2, 2),
                  Slice(1, -1, 1), Slice(-1, 10, 1), Slice(1, 0, -1)}

\* inst[index]
GetItem(i, index) ==
    /\ cur.phase = "idle"
    /\ LET r == Struct__getitem__(heap, i, index)
       IN last' = Last("getitem", i, r.ok, r.exc, [index |-> index, res |-> r.val])
    /\ UNCHANGED <<classes, heap, cur>>

\* len(inst), tuple(inst) and inst._asdict()
Decompose(i) ==
    /\ cur.phase = "idle"
    /\ last' = Last("decompose", i, TRUE, NoExc,
                    [len |-> Struct__len__(heap, i),
                     iter |-> Struct__iter__(heap, i),
                     asdict |-> Struct_asdict(heap, i)])
    /\ UNCHANGED <<classes, heap, cur>>

\* repr(inst)
Repr(i) ==
    /\ cur.phase = "idle"
    /\ last' = Last("repr", i, TRUE, NoExc,
                    [res |-> Struct__repr__(heap, i),
                     depth |-> recursive_repr(heap, i, "repr", NotRunning).depth])
    /\ UNCHANGED <<classes, heap, cur>>

\* str(inst)
Str(i) ==
    /\ cur.phase = "idle"
    /\ last' = Last("str", i, TRUE, NoExc,
                    [res |-> Struct__str__(heap, i),
                     depth |-> recursive_repr(heap, i, "str", NotRunning).depth])
    /\ UNCHANGED <<classes, heap, cur>>

\* The attribute names written by the user of an instance: its fields and
\* the non-field attribute m.
AttrNames(i) == {ClassOf(heap, i)._struct[p].name : p \in DOMAIN ClassOf(heap, i)._struct} \cup {"m"}

\* Programs over the types of ItemDecls: the program makes one instance
\* from an integer for every field, writes it by attribute and by
\* subscript, may then take a copy of it, and ends with one reading.
NextItems ==
    /\ ~Halted
    /\ last.op \notin {"getitem", "decompose", "repr"}
    /\ \/ /\ heap = <<>>
          /\ \E c \in DOMAIN classes : \E x, y \in IntVals : Call(c, <<x, y>>, NoKw)
       \/ NewStep
       \/ InitStep
       \/ Finish
       \/ /\ Len(heap) = 1
          /\ \E name \in AttrNames(1) : \E v \in IntVals : SetAttr(1, name, v)
       \/ /\ Len(heap) = 1
          /\ \E index \in Indexes :
                 \E v \in ItemVals(index, ClassOf(heap, 1)._struct) : SetItem(1, index, v)
       \/ \E i \in Ids : \E index \in GetIndexes : GetItem(i, index)
       \/ \E i \in Ids : Decompose(i)
       \/ \E i \in Ids : Repr(i)
       \/ \E i \in Ids : Hash(i)
       \/ \E i, j \in Ids : Eq(i, j)
       \/ \E i \in Ids : Copy(i)

SpecItems == InitWith(ItemDecls) /\ [][NextItems]_vars

\* The values offered to the types of ReplaceDecls.
ReplaceVals == IntVals \cup {StrV(0)}

\* The overrides offered to _replace: none, one field, a name that is no
\* field, and every field at once.
Overrides(names) ==
    {NoKw} \cup {name :> v : name \in Range(names) \cup {"zz"}, v \in ReplaceVals}
           \cup {[name \in Range(names) |-> v] : v \in ReplaceVals}

\* inst._replace(**kargs)
Replace(i, kargs) ==
    /\ cur.phase = "idle"
    /\ LET r == Struct_replace(heap, i, kargs)
       IN /\ Len(r.heap) <= MaxInst
          /\ heap' = r.heap
          /\ last' = Last("replace", i, r.ok, r.exc, [kargs |-> kargs, res |-> r.id])
    /\ UNCHANGED <<classes, cur>>

\* Programs over the types of ReplaceDecls: the program makes one
\* instance, giving every field or leaving out the last one, writes its
\* fields, and ends with a copy of it with overrides.
NextReplace ==
    /\ ~Halted
    /\ \/ /\ heap = <<>>
          /\ \E c \in DOMAIN classes :
                 \E n \in {Len(classes[c]._struct) - 1, Len(classes[c]._struct)} :
                     \E args \in [1 .. n -> ReplaceVals] : Call(c, args, NoKw)
       \/ NewStep
       \/ InitStep
       \/ Finish
       \/ /\ Len(heap) = 1
          /\ \E p \in DOMAIN ClassOf(heap, 1)._struct : \E v \in ReplaceVals :
                 SetAttr(1, ClassOf(heap, 1)._struct[p].name, v)
       \/ /\ Len(heap) = 1
          /\ \E kargs \in Overrides(FieldNames(heap[1].cls)) : Replace(1, kargs)

SpecReplace == InitWith(ReplaceDecls) /\ [][NextReplace]_vars

\* The values offered to the types of RenderDecls: an int, a string, None,
\* the finished instances, and a list and a tuple that hold one of them.
RenderVals ==
    {IntV(0), StrV(0), NoneV} \cup Refs \cup {ListV(<<r>>) : r \in Refs}
                              \cup {TupV(<<r, StrV(0)>>) : r \in Refs}

\* Programs over the types of RenderDecls: the program makes instances,
\* writes the fields of the mutable ones, so that an instance may come to
\* hold itself, and ends by rendering one (no type of RenderDecls has a
\* hook to run).
NextRender ==
    /\ ~Halted
    /\ last.op \notin {"str", "repr"}
    /\ \/ \E c \in DOMAIN classes : \E v \in RenderVals : Call(c, <<v>>, NoKw)
       \/ NewStep
       \/ Finish
       \/ \E i \in Ids : \E v \in RenderVals :
              /\ ~ClassOf(heap, i)._immutable
              /\ SetAttrAny(i, "a", v)
       \/ \E i \in Ids : Str(i)
       \/ \E i \in Ids : Repr(i)

SpecRender == InitWith(RenderDecls) /\ [][NextRender]_vars

\* Programs over the types of OrderDecls: instantiations, giving every
\* field or leaving out the last one, then writes, hashes and copies of
\* the finished instances.
NextOrder ==
    /\ ~Halted
    /\ \/ \E c \in DOMAIN classes :
              \E n \in {Len(classes[c]._struct) - 1, Len(classes[c]._struct)} :
                  \E args \in [1 .. n -> ReplaceVals] : Call(c, args, NoKw)
       \/ NewStep
       \/ InitStep
       \/ Finish
       \/ \E i \in Ids : \E p \in DOMAIN ClassOf(heap, i)._struct :
              \E v \in {IntV(0), StrV(0)} :
                  SetAttr(i, ClassOf(heap, i)._struct[p].name, v)
       \/ \E i \in Ids : Hash(i)
       \/ \E i \in Ids : Copy(i)

SpecOrder == InitWith(OrderDecls) /\ [][NextOrder]_vars

\* The integers offered to the types of HashDecls: negative ones too.
HashVals == {IntV(n) : n \in -2 .. MaxInt}

\* Programs over the types of HashDecls: the program makes one instance
\* and hashes it, at any moment (no type of HashDecls has a hook to run).
NextHash ==
    /\ ~Halted
    /\ \/ /\ heap = <<>>
          /\ \E c \in DOMAIN classes :
                 \E args \in [1 .. Len(classes[c]._struct) -> HashVals] : Call(c, args, NoKw)
       \/ NewStep
       \/ Finish
       \/ \E i \in Ids : Hash(i)

SpecHash == InitWith(HashDecls) /\ [][NextHash]_vars

\* Concurrent instantiations: every thread has its own frame (the locals
\* of MetaStruct.__call__ and Struct.__new__), cur maps the threads to
\* their frames, and the threads share the heap and the classes.  A step
\* is one bytecode-level operation that the interpreter runs without
\* switching threads: the binding and allocation, one setattr, one
\* statement of the hook, the final marking.
Threads == {"t1", "t2"}

InitThreads(decls) ==
    /\ classes = CompileAll(decls)
    /\ heap = <<>>
    /\ cur = [t \in Threads |-> Idle]
    /\ last = Last("none", 0, TRUE, NoExc, <<>>)

\* The calls the threads make on a type of two fields: no argument at
\* all, the second field left to its default, and the second field given.
ThreadCalls == {<<>>, <<IntV(0)>>, <<IntV(1)>>, <<IntV(1), StrV(0)>>}

\* Thread t calls cls(*args): MetaStruct.__call__ binds the arguments (a
\* failure ends the call), then Struct.__new__ allocates the instance and
\* marks it not initialized.
ThreadCall(t, clsname, args) ==
    /\ cur[t].phase = "idle"
    /\ LET b == get_boundargs(clsname, args, NoKw)
       IN IF ~b.ok
          THEN /\ last' = Last("call", 0, FALSE, b.exc, [thread |-> t])
               /\ UNCHANGED <<heap, cur>>
          ELSE /\ Len(heap) < MaxInst
               /\ heap' = Append(heap, NewInstance(clsname))
               /\ cur' = [cur EXCEPT ![t] =
                              [phase |-> "new", id |-> Len(heap) + 1, pos |-> 1, pc |-> 1,
                               args |-> boundargs_args(clsname, b.val)]]
               /\ last' = Last("new", Len(heap) + 1, TRUE, NoExc, [thread |-> t])
    /\ UNCHANGED classes

\* The instantiation of thread t fails: the exception reaches its caller
\* and the instance, never marked initialized, is left to the collector.
ThreadFail(t, exc) ==
    /\ heap' = heap
    /\ cur' = [cur EXCEPT ![t] = Idle]
    /\ last' = Last("call", 0, FALSE, exc, [thread |-> t])

\* Struct.__new__ in thread t, one field
ThreadNewStep(t) ==
    /\ cur[t].phase = "new"
    /\ cur[t].pos <= Len(ClassOf(heap, cur[t].id)._struct)
    /\ LET arguments == get_boundargs(heap[cur[t].id].cls, cur[t].args, NoKw).val
           r == NewWriteField(heap, cur[t].id, cur[t].pos, arguments)
       IN IF r.ok
          THEN /\ heap' = r.heap
               /\ cur' = [cur EXCEPT ![t].pos = @ + 1]
               /\ last' = Last("write", cur[t].id, TRUE, NoExc, [thread |-> t])
          ELSE ThreadFail(t, r.exc)
    /\ UNCHANGED classes

\* The __init__ hook in thread t, one statement
ThreadInitStep(t) ==
    /\ cur[t].phase = "new"
    /\ cur[t].pos > Len(ClassOf(heap, cur[t].id)._struct)
    /\ cur[t].pc <= Len(ClassOf(heap, cur[t].id).init)
    /\ LET r == InitStmt(heap, cur[t].id, ClassOf(heap, cur[t].id).init[cur[t].pc],
                         cur[t].args)
       IN IF r.ok
          THEN /\ heap' = r.heap
               /\ cur' = [cur EXCEPT ![t].pc = @ + 1]
               /\ last' = Last("init", cur[t].id, TRUE, NoExc, [thread |-> t])
          ELSE ThreadFail(t, r.exc)
    /\ UNCHANGED classes

\* MetaStruct.__call__ in thread t, last part
ThreadFinish(t) ==
    /\ cur[t].phase = "new"
    /\ cur[t].pos > Len(ClassOf(heap, cur[t].id)._struct)
    /\ cur[t].pc > Len(ClassOf(heap, cur[t].id).init)
    /\ heap' = [heap EXCEPT ![cur[t].id]._initialized = TRUE]
    /\ cur' = [cur EXCEPT ![t] = Idle]
    /\ last' = Last("call", cur[t].id, TRUE, NoExc, [thread |-> t])
    /\ UNCHANGED classes

\* Any interleaving of the threads' steps.
NextThreads ==
    \E t \in Threads :
        \/ \E c \in DOMAIN classes : \E args \in ThreadCalls : ThreadCall(t, c, args)
        \/ ThreadNewStep(t)
        \/ ThreadInitStep(t)
        \/ ThreadFinish(t)

SpecThreads == InitThreads(DefaultsDecls) /\ [][NextThreads]_vars

\* The slices assigned to a MutPair and the values assigned to them: one,
\* two or three values, ints and strings.
SliceIndexes == {SliceAll(1), SliceAll(-1), Slice(0, 0, 1)}

SliceVals ==
    {TupV(<<>>)} \cup {TupV(<<v>>) : v \in ReplaceVals}
                 \cup {TupV(<<v, w>>) : v, w \in ReplaceVals}
                 \cup {TupV(<<IntV(0), IntV(0), IntV(0)>>)}

\* Programs over the type of SliceDecls: the program makes one instance
\* and assigns to its slices (the type has no hook to run).
NextSlices ==
    /\ ~Halted
    /\ \/ /\ heap = <<>>
          /\ \E c \in DOMAIN classes : \E x, y \in IntVals : Call(c, <<x, y>>, NoKw)
       \/ NewStep
       \/ Finish
       \/ /\ Len(heap) = 1
          /\ \E index \in SliceIndexes : \E v \in SliceVals : SetItem(1, index, v)

SpecSlices == InitWith(SliceDecls) /\ [][NextSlices]_vars

\* What the callers of type.checktype / type.checktype_seq give for a kind.
KindLikes ==
    {KindNone, Type("int"), Type("str"), Type("bool"), Types(<<"int">>),
     Types(<<"str", "int">>), Types(<<"int", "str", "bool">>)}

\* type.checktype(val, kind)
CheckType(val, kindlike) ==
    /\ cur.phase = "idle"
    /\ LET kind == normalize_kind(kindlike)
           r == checktype(heap, val, kind)
       IN last' = Last("checktype", 0, r.ok, r.exc,
                       [val |-> val, kindlike |-> kindlike])
    /\ UNCHANGED <<classes, heap, cur>>

\* type.checktype_seq(val, kind, unique=...)
CheckSeq(val, kindlike, unique) ==
    /\ cur.phase = "idle"
    /\ LET kind == normalize_kind(kindlike)
           r == checktype_seq(heap, val, kind, unique)
       IN last' = Last("checktype_seq", 0, r.ok, r.exc,
                       [val |-> val, kindlike |-> kindlike, unique |-> unique,
                        pulled |-> r.pulled])
    /\ UNCHANGED <<classes, heap, cur>>

\* Programs that check values, or make one instance with typed fields and
\* write its fields (no type of TypedDecls has a hook to run).
NextTyped ==
    /\ ~Halted
    /\ last.op \notin {"checktype", "checktype_seq"}
    /\ \/ /\ heap = <<>>
          /\ \E c \in DOMAIN classes : \E call \in Calls(c) :
                 Call(c, call.args, call.kw)
       \/ NewStep
       \/ Finish
       \/ \E i \in Ids : \E p \in DOMAIN ClassOf(heap, i)._struct :
              \E v \in ArgVals(ClassOf(heap, i)._struct[p]) :
                  SetAttr(i, ClassOf(heap, i)._struct[p].name, v)
       \/ /\ heap = <<>>
          /\ \E val \in TypedVals, kindlike \in KindLikes : CheckType(val, kindlike)
       \/ /\ heap = <<>>
          /\ \E val \in TypedVals, kindlike \in KindLikes, unique \in BOOLEAN :
                 CheckSeq(val, kindlike, unique)

SpecTyped == InitWith(TypedDecls) /\ [][NextTyped]_vars

\* Class statements as steps: the program declares ClassNames one after
\* the other, each with any of the bodies and any of the base lists the
\* classes declared so far allow.  The descriptors of the bodies are two
\* objects made beforehand, field = Field() and field0 = Field(default=0),
\* that the bodies declare under the names a and b.
ClassNames == <<"K1", "K2", "K3">>

MaxBody == 2

BodyItems ==
    {DeclField("a", Field), DeclField("b", Field),
     DeclField("a", FieldDefault(IntV(0))), DeclFlag("_inherit_fields", TRUE)}

RECURSIVE Bodies(_)
Bodies(n) ==
    IF n = 0 THEN {<<>>}
    ELSE Bodies(n - 1) \cup {Append(b, x) : b \in Bodies(n - 1), x \in BodyItems}

\* Base lists Python accepts: no base twice, and no base listed before
\* one of its own subclasses.
BaseLists ==
    {<<>>} \cup {<<k>> : k \in DOMAIN classes}
           \cup {bs \in {<<k1, k2>> : k1, k2 \in DOMAIN classes} :
                    bs[1] # bs[2] /\ bs[1] \notin classes[bs[2]].ancestors}

\* class clsname(*bases): body
Declare(clsname, bases, body) ==
    /\ clsname \notin DOMAIN classes
    /\ LET r == MetaStruct__new__(classes, clsname, bases, body)
       IN /\ classes' = IF r.ok THEN (clsname :> r.cls) @@ classes ELSE classes
          /\ last' = Last("declare", 0, r.ok, r.exc,
                          [cls |-> clsname, bases |-> bases, body |-> body,
                           originals |-> r.originals])
    /\ UNCHANGED <<heap, cur>>

InitSchema ==
    /\ classes = <<>>
    /\ heap = <<>>
    /\ cur = Idle
    /\ last = Last("none", 0, TRUE, NoExc, <<>>)

NextSchema ==
    /\ ~Halted
    /\ Cardinality(DOMAIN classes) < Len(ClassNames)
    /\ \E bases \in BaseLists : \E body \in Bodies(MaxBody) :
           Declare(ClassNames[Cardinality(DOMAIN classes) + 1], bases, body)

SpecSchema == InitSchema /\ [][NextSchema]_vars

---------------------------------------------------------------------------
(* Properties *)

Immutable(i) == ClassOf(heap, i)._immutable
Initialized(i) == heap[i]._initialized

\* A value every hash strategy accepts all the way down: an int, or an
\* initialized instance of an immutable type whose field values are such
\* values.
RECURSIVE Hashable(_)
Hashable(v) ==
    \/ v.k = "int"
    \/ /\ v.k = "ref"
       /\ Immutable(v.n) /\ Initialized(v.n)
       /\ \A p \in DOMAIN FieldValues(heap, v.n) : Hashable(FieldValues(heap, v.n)[p])

\* C2 as stated: hash(instance) succeeds exactly when the instance's type
\* is immutable and the instance is initialized, whatever its field values.
C2_HashIffImmutableInitialized ==
    last.op = "hash" =>
        (last.ok <=> (Immutable(last.id) /\ Initialized(last.id)))

\* C2 amended: hash(instance) fails with TypeError when the type is
\* mutable or the instance is not yet initialized; for an initialized
\* instance of an immutable type it succeeds exactly when every field
\* value is itself hashable, and otherwise fails with the TypeError of the
\* unhashable value.
C2_HashIffImmutableInitializedHashable ==
    last.op = "hash" =>
        /\ last.ok <=> /\ Immutable(last.id) /\ Initialized(last.id)
                       /\ \A p \in DOMAIN FieldValues(heap, last.id) :
                              Hashable(FieldValues(heap, last.id)[p])
        /\ ~last.ok => last.exc.etype = "TypeError"

\* An immutable instance that holds another instance has been hashed, and
\* an instance still being constructed has been refused.
C2_Witness ==
    /\ last.op = "hash" /\ last.ok
    /\ \E p \in DOMAIN FieldValues(heap, last.id) :
           FieldValues(heap, last.id)[p].k = "ref"

\* Every field reachable from the instance uses the default eq / hash.
RECURSIVE DefaultStrategies(_)
DefaultStrategies(i) ==
    \A p \in DOMAIN ClassOf(heap, i)._struct :
        /\ ClassOf(heap, i)._struct[p].ftype # "CustomField"
        /\ FieldValues(heap, i)[p].k = "ref" => DefaultStrategies(FieldValues(heap, i)[p].n)

HashOf(i) == PyHash(heap, RefV(i))

\* C3 as stated: for immutable, initialized a and b, a == b implies
\* hash(a) == hash(b), whatever eq / hash strategies the fields use.
C3_EqImpliesSameHash ==
    (/\ last.op = "eq" /\ last.info.res
     /\ Immutable(last.id) /\ Immutable(last.info.other)
     /\ HashOf(last.id).ok /\ HashOf(last.info.other).ok)
    => HashOf(last.id).val = HashOf(last.info.other).val

\* C3 amended: for immutable, initialized a and b all of whose fields use
\* the default eq and hash, a == b implies hash(a) == hash(b).
C3_EqImpliesSameHashDefault ==
    (/\ last.op = "eq" /\ last.info.res
     /\ Immutable(last.id) /\ Immutable(last.info.other)
     /\ HashOf(last.id).ok /\ HashOf(last.info.other).ok
     /\ DefaultStrategies(last.id) /\ DefaultStrategies(last.info.other))
    => HashOf(last.id).val = HashOf(last.info.other).val

\* Two distinct immutable instances holding instances compared equal and
\* both hash.
C3_Witness ==
    /\ last.op = "eq" /\ last.info.res /\ last.id # last.info.other
    /\ Immutable(last.id) /\ Immutable(last.info.other)
    /\ HashOf(last.id).ok /\ HashOf(last.info.other).ok
    /\ DefaultStrategies(last.id) /\ DefaultStrategies(last.info.other)

\* C5: rebuilding any instance x from its ordered field values (as
\* pickling and deep copying do) succeeds and yields y with y == x; stated
\* here for the types whose fields all use the default eq, a type whose
\* __init__ hook rewrites fields included.
C5_RoundTrip ==
    (last.op = "copy" /\ DefaultStrategies(last.id)) =>
        /\ last.ok
        /\ PyEq(heap, RefV(last.info.res), RefV(last.id))

\* A copy of an instance whose hook rewrites its field came out unequal to
\* the original.
C5_Witness ==
    /\ last.op = "copy" /\ last.ok
    /\ heap[last.id].cls = "IncFoo"
    /\ heap[last.info.res].d["bar"] = IntV(heap[last.id].d["bar"].n + 1)
    /\ ~PyEq(heap, RefV(last.info.res), RefV(last.id))

\* The value the last call supplied for the field called name, after
\* binding and defaults.
CallBinds == get_boundargs(last.info.cls, last.info.args, last.info.kw).ok
Supplied(name) == get_boundargs(last.info.cls, last.info.args, last.info.kw).val[name]

\* C1, for attribute assignment: a field write on an initialized instance
\* of an immutable type fails with AttributeError.
C1_WriteFailsWithAttributeError ==
    (last.op = "setattr" /\ Immutable(last.id) /\ Initialized(last.id))
    => (~last.ok /\ last.exc.etype = "AttributeError")

\* A value that is no Bar, written to the field of kind Bar of a finished
\* immutable owner, was refused with TypeError.
C1_Witness ==
    /\ last.op = "setattr" /\ Immutable(last.id) /\ Initialized(last.id)
    /\ last.info.name = "b" /\ last.info.value = IntV(0)
    /\ ~last.ok /\ last.exc.etype = "TypeError"

\* C7: every failed instantiation raises an error whose message names the
\* class being constructed and that is chained to its cause.
C7_FailureNamesType ==
    (last.op = "call" /\ ~last.ok)
    => /\ Len(last.exc.msg) >= 2
       /\ last.exc.msg[1] = "Error constructing"
       /\ last.exc.msg[2] = last.info.cls
       /\ last.exc.cause # NoExc

\* A call with one positional argument too many failed with the bare
\* binding error.
C7_Witness ==
    /\ last.op = "call" /\ ~last.ok
    /\ Len(last.info.args) > Len(classes[last.info.cls]._struct)
    /\ last.exc = Exc("TypeError", <<"too many positional arguments">>)

\* The last operation was a finished or failed call of an owner class
\* with a tuple for its field b of kind Bar.
OwnerCallWithTuple ==
    /\ last.op = "call"
    /\ last.info.cls \in {"Owner", "MutOwner"}
    /\ CallBinds
    /\ Supplied("b").k = "tuple"

\* Bar(*t) for the tuple supplied, and then the owner built from that Bar
\* and the other values supplied.
BarOfTuple == MetaStruct__call__(heap, "Bar", Supplied("b").items, NoKw)

OwnerOfBar ==
    LET fs == classes[last.info.cls]._struct
    IN MetaStruct__call__(BarOfTuple.heap, last.info.cls,
           [p \in DOMAIN fs |-> IF fs[p].name = "b" THEN RefV(BarOfTuple.id)
                                ELSE Supplied(fs[p].name)],
           NoKw)

\* C9: a field of kind Bar accepts a Bar instance as it is, and accepts a
\* tuple, in the constructor or in a write on a mutable owner, whenever
\* Bar(*tuple) succeeds; the stored value is then a Bar instance equal to
\* Bar(*tuple), and the owner equals the owner built from that Bar
\* instance.
C9_TupleCoercedToStruct ==
    /\ OwnerCallWithTuple =>
          /\ last.ok <=> BarOfTuple.ok
          /\ last.ok =>
                /\ heap[last.id].d["b"].k = "ref"
                /\ heap[heap[last.id].d["b"].n].cls = "Bar"
                /\ PyEq(BarOfTuple.heap, heap[last.id].d["b"], RefV(BarOfTuple.id))
                /\ OwnerOfBar.ok
                /\ PyEq(OwnerOfBar.heap, RefV(last.id), RefV(OwnerOfBar.id))
    /\ (/\ last.op = "call" /\ last.info.cls \in {"Owner", "MutOwner"}
        /\ CallBinds /\ Supplied("b").k = "ref"
        /\ heap[Supplied("b").n].cls = "Bar")
       => (last.ok /\ heap[last.id].d["b"] = Supplied("b"))
    /\ (/\ last.op = "setattr" /\ ~Immutable(last.id)
        /\ last.info.name = "b" /\ last.info.value.k = "tuple")
       => LET bar == MetaStruct__call__(heap, "Bar", last.info.value.items, NoKw)
          IN /\ last.ok <=> bar.ok
             /\ last.ok =>
                   /\ heap[last.id].d["b"].k = "ref"
                   /\ heap[heap[last.id].d["b"].n].cls = "Bar"
                   /\ PyEq(bar.heap, heap[last.id].d["b"], RefV(bar.id))

\* An owner was built from a tuple.
C9_Witness ==
    /\ OwnerCallWithTuple /\ last.ok
    /\ last.info.cls = "Owner"
    /\ heap[last.id].d["b"].k = "ref"

\* The tuple has not the arity of Bar's constructor.
WrongArity(v) == v.k = "tuple" /\ ~MetaStruct__call__(heap, "Bar", v.items, NoKw).ok

BarError(v) == MetaStruct__call__(heap, "Bar", v.items, NoKw).exc

\* C10 as stated: a wrong-arity tuple for a field of kind Bar fails with
\* the very error Bar(*tuple) raises, in a field write and in the owner's
\* construction alike.
C10_SameErrorAsBar ==
    /\ (OwnerCallWithTuple /\ WrongArity(Supplied("b")))
       => (~last.ok /\ last.exc = BarError(Supplied("b")))
    /\ (last.op = "setattr" /\ last.info.name = "b" /\ ~Immutable(last.id)
        /\ WrongArity(last.info.value))
       => (~last.ok /\ last.exc = BarError(last.info.value))

\* C10 amended: a wrong-arity tuple written to a field of kind Bar of a
\* mutable instance fails with the very error Bar(*tuple) raises; supplied
\* to the owner's constructor it fails with a TypeError "Error constructing
\* <Owner> (field '<name>'): <message of Bar's error>" whose cause is the
\* error Bar(*tuple) raises.
C10_BarErrorWrappedInConstruction ==
    /\ (OwnerCallWithTuple /\ WrongArity(Supplied("b")))
       => /\ ~last.ok
          /\ last.exc.etype = "TypeError"
          /\ last.exc.msg = <<"Error constructing", last.info.cls, "(field", "b", ")", ":">>
                                \o BarError(Supplied("b")).msg
          /\ last.exc.cause = BarError(Supplied("b"))
    /\ (last.op = "setattr" /\ last.info.name = "b" /\ ~Immutable(last.id)
        /\ WrongArity(last.info.value))
       => (~last.ok /\ last.exc = BarError(last.info.value))

\* An owner's construction failed on a wrong-arity tuple.
C10_Witness ==
    /\ OwnerCallWithTuple /\ WrongArity(Supplied("b"))
    /\ ~last.ok /\ last.info.cls = "Owner"

\* C4: a == b holds for two instances of the same type exactly when they
\* are one object or every field's eq accepts the pair of values; it never
\* holds for instances of different types, a parent and a child with the
\* same fields and values included.
C4_ExactTypeStructuralEq ==
    last.op = "eq" =>
        LET i == last.id
            j == last.info.other
            fs == ClassOf(heap, i)._struct
        IN /\ heap[i].cls = heap[j].cls =>
                 (last.info.res <=>
                     \/ i = j
                     \/ \A p \in DOMAIN fs :
                            Field_eq(heap, fs[p], FieldValues(heap, i)[p],
                                     FieldValues(heap, j)[p]))
           /\ heap[i].cls # heap[j].cls => ~last.info.res

\* A parent and a child holding the same field values were compared.
C4_Witness ==
    /\ last.op = "eq" /\ ~last.info.res
    /\ {heap[last.id].cls, heap[last.info.other].cls} = {"Parent", "Child"}
    /\ FieldValues(heap, last.id) = FieldValues(heap, last.info.other)

\* The last call left the defaulted field b out.
OmitsB == Len(last.info.args) < 2 /\ "b" \notin DOMAIN last.info.kw

\* What the __init__ hook of the last call must receive for b.
ExpectedB ==
    IF OmitsB THEN DefaultD
    ELSE IF Len(last.info.args) >= 2 THEN last.info.args[2]
    ELSE last.info.kw["b"]

\* C8: with b declared after a with default DefaultD, a call that leaves b
\* out yields b = DefaultD and a call that supplies b, by position or by
\* keyword, yields the supplied value; the hook receives that value as its
\* argument (kept in c), and where the hook writes b (Rewrites: b += 1)
\* the finished instance holds the hook's value.
C8_DefaultsBeforeHook ==
    (last.op = "call" /\ last.ok) =>
        /\ heap[last.id].d["c"] = ExpectedB
        /\ last.info.cls = "Defaults" => heap[last.id].d["b"] = ExpectedB
        /\ last.info.cls = "Rewrites" => heap[last.id].d["b"] = IntV(ExpectedB.n + 1)

\* A call that left b out finished, and the hook's write replaced the
\* default.
C8_Witness ==
    /\ last.op = "call" /\ last.ok /\ OmitsB
    /\ last.info.cls = "Rewrites"
    /\ heap[last.id].d["c"] = DefaultD
    /\ heap[last.id].d["b"] = IntV(DefaultD.n + 1)

\* The field names a class body declares, and whether it declares one of
\* them twice.
DeclaredNames(body) == {body[i].name : i \in {j \in DOMAIN body : body[j].t = "field"}}

DeclaredTwice(body) ==
    \E i, j \in DOMAIN body :
        i < j /\ body[i].t = "field" /\ body[j].t = "field" /\ body[i].name = body[j].name

\* The names that occur more than once among the fields inherited from
\* the bases (when the body opts in) and the names the body declares.
OptsIn(body) == \E i \in DOMAIN body : body[i].name = "_inherit_fields" /\ body[i].v

InheritedCount(bases, n) ==
    Cardinality(UNION {{<<i, p>> : p \in {q \in DOMAIN classes[bases[i]]._struct :
                                            classes[bases[i]]._struct[q].name = n}} :
                       i \in DOMAIN bases})

Colliding(bases, body) ==
    IF ~OptsIn(body) THEN {}
    ELSE {n \in {"a", "b"} :
             InheritedCount(bases, n) + (IF n \in DeclaredNames(body) THEN 1 ELSE 0) > 1}

\* C6 as stated, for direct declarations: a class body that declares two
\* fields under one name fails at class-definition time.
C6_DirectDuplicateFails ==
    (last.op = "declare" /\ DeclaredTwice(last.info.body)) => ~last.ok

\* C6 amended: a class statement fails with AttributeError exactly when the
\* body opts in to field inheritance and some name occurs more than once
\* among the inherited fields and the names the body declares; the error
\* names every such name and the class does not come to exist.  A name
\* declared twice directly in one body is no collision (the later
\* declaration replaces the earlier).  Field names are unique in every
\* schema built.
C6_InheritedCollisionFails ==
    /\ last.op = "declare" =>
          /\ (Colliding(last.info.bases, last.info.body) # {})
                <=> (~last.ok /\ last.exc.etype = "AttributeError")
          /\ (Colliding(last.info.bases, last.info.body) # {}) =>
                /\ last.exc.msg[2] = last.info.cls
                /\ {last.exc.msg[p] : p \in 4 .. Len(last.exc.msg)}
                      = Colliding(last.info.bases, last.info.body)
                /\ last.info.cls \notin DOMAIN classes
    /\ \A c \in DOMAIN classes : \A p, q \in DOMAIN classes[c]._struct :
          classes[c]._struct[p].name = classes[c]._struct[q].name => p = q

\* A class that redeclares a field it inherits was refused.
C6_Witness ==
    /\ last.op = "declare" /\ ~last.ok
    /\ last.exc.etype = "AttributeError"
    /\ DeclaredNames(last.info.body) \cap Colliding(last.info.bases, last.info.body) # {}

---------------------------------------------------------------------------
(* Sequence fields *)

\* The field of instance i named name.
FieldOf(i, name) ==
    LET fs == ClassOf(heap, i)._struct
    IN fs[CHOOSE p \in DOMAIN fs : fs[p].name = name]

IsCollection(v) == v.k \in {"list", "tuple"}

\* Every element satisfies the kind, and none repeats where the field
\* requires distinct elements.
Acceptable(f, v) ==
    /\ IsCollection(v)
    /\ \A p \in DOMAIN v.items : isinstance(heap, v.items[p], f.kind)
    /\ f.unique =>
           \A p, q \in DOMAIN v.items :
               p # q => ~PyEq(heap, v.items[p], v.items[q])

\* The write of value v to field f of instance i was accepted and stored
\* the tuple of v's elements.
StoredAsTuple(i, f, v) ==
    /\ f.name \in DOMAIN heap[i].d
    /\ heap[i].d[f.name] = TupV(v.items)

---------------------------------------------------------------------------
(* The sequence check *)

\* The message of a sequence check on kind that rejects got.
SeqMessage(kindlike, got) ==
    <<"Expected sequence of">> \o str_kind(normalize_kind(kindlike)) \o got

\* C12: the sequence check rejects with a TypeError every value that is no
\* list or tuple; a generator is rejected as "got generator instead of
\* sequence" with none of its elements pulled, and a string is rejected
\* with the message on character sequences, whatever the kind (str too).
C12_NonSequencesRejected ==
    /\ last.op = "checktype_seq" =>
          LET val == last.info.val
          IN /\ ~IsCollection(val) => ~last.ok /\ last.exc.etype = "TypeError"
             /\ val.k = "generator" =>
                   /\ last.exc.msg = SeqMessage(last.info.kindlike,
                                        <<"; got", "generator", "instead of sequence">>)
                   /\ last.info.pulled = 0
             /\ val.k = "str" =>
                   last.exc.msg = SeqMessage(last.info.kindlike,
                       <<"; got single str (strings do not count as character sequences)">>)
             /\ val.k \in {"int", "bool", "NoneType"} =>
                   last.exc.msg = SeqMessage(last.info.kindlike,
                       <<"; got", IF val = NoneV THEN "None" ELSE val.k, "instead of sequence">>)
    /\ (last.op \in {"call", "setattr"} /\ last.id > 0 /\ last.ok) =>
          \A p \in DOMAIN ClassOf(heap, last.id)._struct :
              LET f == ClassOf(heap, last.id)._struct[p]
              IN f.seq => heap[last.id].d[f.name].k \notin {"generator", "str"}

\* A generator with an element that satisfies the kind was checked and
\* rejected.
C12_Witness ==
    /\ last.op = "checktype_seq" /\ ~last.ok
    /\ last.info.val.k = "generator"
    /\ Len(last.info.val.items) = 1
    /\ isinstance(heap, last.info.val.items[1], normalize_kind(last.info.kindlike))
    /\ last.info.pulled = 0

\* Some element equals an earlier one; FirstRepeat is the lowest position
\* (from 1) of such an element.
Repeats(items, q) == \E p \in 1 .. (q - 1) : PyEq(heap, items[p], items[q])

HasRepeat(items) == \E q \in DOMAIN items : Repeats(items, q)

FirstRepeat(items) ==
    CHOOSE q \in DOMAIN items :
        Repeats(items, q) /\ \A r \in 1 .. (q - 1) : ~Repeats(items, r)

DuplicateError(item, index) ==
    Exc("TypeError", <<"Duplicate element", item, "at position", index>>)

---------------------------------------------------------------------------
(* The type check *)

\* The types a kind stands for, read off what was given for it.
KindTypes(kindlike) ==
    IF kindlike = KindNone THEN <<"object">> ELSE kindlike.types

\* Type t is type u or a subtype of it.
Subtype(t, u) == t = u \/ u = "object" \/ (t = "bool" /\ u = "int")

\* 'T', 'T1 or T2', 'one of {T1, T2, T3}'
KindName(ts) ==
    IF Len(ts) = 1 THEN <<ts[1]>>
    ELSE IF Len(ts) = 2 THEN <<ts[1], "or", ts[2]>>
    ELSE <<"one of {", ts[1], ts[2], ts[3], "}">>

\* C14: checktype(val, kind) passes exactly when the type of val is one of
\* the kind's types or a subtype of one (bool of int); None for the kind
\* admits every value, one type stands for that type alone and a list of
\* types for its types; the TypeError of a failure names the kind as 'T',
\* 'T1 or T2' or 'one of {T1, T2, T3}' and the type of val, 'None' for None.
C14_CheckIffInstance ==
    last.op = "checktype" =>
        LET val == last.info.val
            ts == KindTypes(last.info.kindlike)
        IN /\ normalize_kind(last.info.kindlike) = ts
           /\ last.ok <=> \E p \in DOMAIN ts : Subtype(val.k, ts[p])
           /\ last.info.kindlike = KindNone => last.ok
           /\ (val.k = "bool" /\ last.info.kindlike = Type("int")) => last.ok
           /\ ~last.ok =>
                 last.exc = Exc("TypeError",
                     <<"Expected">> \o KindName(ts)
                         \o <<"; got", IF val = NoneV THEN "None" ELSE val.k>>)

\* None was checked against a kind of three types and rejected.
C14_Witness ==
    /\ last.op = "checktype" /\ ~last.ok
    /\ last.info.val = NoneV
    /\ last.info.kindlike = Types(<<"int", "str", "bool">>)
    /\ last.exc.msg = <<"Expected", "one of {", "int", "str", "bool", "}", "; got", "None">>

---------------------------------------------------------------------------
(* Optional typed fields *)

\* The last operation gave value v to field f of the instance it made or
\* wrote: a call with that one positional argument, or a write to a
\* mutable instance.
Gave(f, v) ==
    \/ /\ last.op = "call" /\ last.info.kw = NoKw
       /\ last.info.args = <<v>>
       /\ f = classes[last.info.cls]._struct[1]
    \/ /\ last.op = "setattr" /\ last.info.value = v
       /\ ~ClassOf(heap, last.id)._immutable
       /\ f = FieldOf(last.id, last.info.name)

TypedFields == {classes[c]._struct[1] : c \in DOMAIN classes}

\* C15: a typed field with or_none takes None whatever its kind and its seq
\* and unique flags and holds it as None, not as a tuple; one without
\* or_none whose kind None does not satisfy refuses None, and one whose kind
\* None satisfies takes it (unless it wants a sequence); a call that leaves
\* out the argument of an or_none field without default fails.
C15_OrNoneAcceptsNone ==
    \A f \in TypedFields :
        /\ (Gave(f, NoneV) /\ f.or_none) =>
              /\ last.ok
              /\ heap[last.id].d[f.name] = NoneV
        /\ (Gave(f, NoneV) /\ ~f.or_none /\ ~isinstance(heap, NoneV, f.kind)) =>
              ~last.ok /\ last.exc.etype = "TypeError"
        /\ (Gave(f, NoneV) /\ ~f.seq /\ isinstance(heap, NoneV, f.kind)) =>
              last.ok /\ heap[last.id].d[f.name] = NoneV
        /\ (last.op = "call" /\ last.info.kw = NoKw /\ last.info.args = <<>>
               /\ f = classes[last.info.cls]._struct[1] /\ f.or_none) =>
              ~last.ok /\ last.exc.etype = "TypeError"

\* None was given to the optional sequence field at construction and is
\* what the finished instance holds.
C15_Witness ==
    /\ last.op = "call" /\ last.ok
    /\ last.info.cls = "OptIds" /\ last.info.args = <<NoneV>>
    /\ heap[last.id].d["vals"] = NoneV

---------------------------------------------------------------------------
(* Schema order *)

\* The field names a body declares, in the order of their first
\* declaration.
RECURSIVE FirstDeclared(_)
FirstDeclared(body) ==
    IF body = <<>> THEN <<>>
    ELSE LET before == FirstDeclared(SubSeq(body, 1, Len(body) - 1))
             item == body[Len(body)]
         IN IF item.t = "field" /\ \A p \in DOMAIN before : before[p] # item.name
            THEN Append(before, item.name)
            ELSE before

\* The field names of the bases, base after base from the left.
RECURSIVE BaseNames(_)
BaseNames(bases) ==
    IF bases = <<>> THEN <<>>
    ELSE FieldNames(Head(bases)) \o BaseNames(Tail(bases))

ExpectedSchema(bases, body) ==
    (IF OptsIn(body) THEN BaseNames(bases) ELSE <<>>) \o FirstDeclared(body)

\* C16: the schema of a declared class is the fields of its immediate
\* bases, base after base from the left, when (and only when) its own body
\* sets _inherit_fields, followed by the fields of its body in declaration
\* order; the positional arguments of a call go to the fields in that order.
C16_SchemaIsInheritedThenOwn ==
    (last.op = "declare" /\ last.ok) =>
        LET c == last.info.cls
            expected == ExpectedSchema(last.info.bases, last.info.body)
            b == get_boundargs(c, [p \in DOMAIN expected |-> IntV(p)], NoKw)
        IN /\ FieldNames(c) = expected
           /\ b.ok
           /\ \A p \in DOMAIN expected : b.val[expected[p]] = IntV(p)

\* A class with two bases that opts in got the field of the left base
\* before the field of the right one.
C16_Witness ==
    /\ last.op = "declare" /\ last.ok
    /\ Len(last.info.bases) = 2 /\ OptsIn(last.info.body)
    /\ FieldNames(last.info.bases[1]) = <<"b">>
    /\ FieldNames(last.info.bases[2]) = <<"a">>
    /\ FieldNames(last.info.cls) = <<"b", "a">>

---------------------------------------------------------------------------
(* Descriptor objects *)

\* The schema slots of the classes declared so far, and the descriptor in
\* a slot.  Two slots hold the same object when their descriptors are
\* equal, identity included.
Slots == UNION {{<<c, p>> : p \in DOMAIN classes[c]._struct} : c \in DOMAIN classes}

SlotOf(s) == classes[s[1]]._struct[s[2]]

\* The last declaration of name n in a body.
LastDeclared(body, n) ==
    body[CHOOSE i \in DOMAIN body :
            /\ body[i].t = "field" /\ body[i].name = n
            /\ \A j \in DOMAIN body : (body[j].t = "field" /\ body[j].name = n) => j <= i]

\* C17 as stated: no two schema slots, of one class or of two, inherited
\* slots included, hold the same descriptor object.
C17_NoTwoSlotsShareDescriptor ==
    \A s, t \in Slots : s # t => SlotOf(s) # SlotOf(t)

\* C17 amended: a slot a class declares itself holds a copy made for that
\* class and that name, with the kind, flags, default and strategies of the
\* declared descriptor and the attribute name; the declared descriptor is
\* left without a name.  The slots a class inherits hold the very
\* descriptor objects of its bases' schemas; two slots hold one object only
\* in this way, never within one class.
C17_OwnSlotsAreCopies ==
    /\ \A s, t \in Slots :
           (s # t /\ SlotOf(s) = SlotOf(t)) =>
               /\ s[1] # t[1]
               /\ SlotOf(s).obj.cls \in classes[s[1]].ancestors \cap classes[t[1]].ancestors
    /\ \A s \in Slots : SlotOf(s).obj # DeclaredObj
    /\ last.op = "declare" =>
           \A p \in DOMAIN last.info.originals : last.info.originals[p].name = ""
    /\ (last.op = "declare" /\ last.ok) =>
           LET c == last.info.cls
               body == last.info.body
               bases == last.info.bases
               own == FirstDeclared(body)
               n == Len(classes[c]._struct) - Len(own)
           IN /\ \A p \in DOMAIN own :
                     LET f == LastDeclared(body, own[p]).f
                         slot == classes[c]._struct[n + p]
                     IN /\ slot.name = own[p]
                        /\ slot.obj = CopyObj(c, own[p])
                        /\ [slot EXCEPT !.name = "", !.obj = DeclaredObj] = f
              /\ \A p \in 1 .. n :
                     \E i \in DOMAIN bases : \E q \in DOMAIN classes[bases[i]]._struct :
                         classes[c]._struct[p] = classes[bases[i]]._struct[q]

\* A class that opts in was declared with a field of its own after the
\* field of its base: the inherited slot holds the base's descriptor.
C17_Witness ==
    /\ last.op = "declare" /\ last.ok
    /\ Len(last.info.bases) = 1 /\ OptsIn(last.info.body)
    /\ Len(classes[last.info.cls]._struct) = 2
    /\ classes[last.info.cls]._struct[1] = classes[last.info.bases[1]]._struct[1]
    /\ classes[last.info.cls]._struct[2].obj = CopyObj(last.info.cls, "b")

---------------------------------------------------------------------------
(* Non-field attributes *)

\* Two finished instances of one type that hold the same field values.
Twins(i, j) ==
    /\ heap[i]._initialized /\ heap[j]._initialized
    /\ heap[i].cls = heap[j].cls
    /\ \A p \in DOMAIN ClassOf(heap, i)._struct :
           heap[i].d[ClassOf(heap, i)._struct[p].name]
               = heap[j].d[ClassOf(heap, i)._struct[p].name]

\* C18: two instances of one type with the same field values are told
\* apart by none of ==, hash, repr, len, iteration, indexing, _asdict and
\* __reduce_ex__, whatever their other attributes; a write to a non-field
\* attribute succeeds on any instance, an initialized immutable one
\* included, and the hook's non-field attribute is there after the call.
C18_ExtrasDoNotCount ==
    /\ \A i, j \in Ids :
          (cur.phase = "idle" /\ Twins(i, j)) =>
              /\ PyEq(heap, RefV(i), RefV(j))
              /\ Struct__hash__(heap, i) = Struct__hash__(heap, j)
              /\ Struct__repr__(heap, i) = Struct__repr__(heap, j)
              /\ Struct__len__(heap, i) = Struct__len__(heap, j)
              /\ Struct__iter__(heap, i) = Struct__iter__(heap, j)
              /\ Struct_asdict(heap, i) = Struct_asdict(heap, j)
              /\ Struct__reduce_ex__(heap, i) = Struct__reduce_ex__(heap, j)
              /\ \A index \in GetIndexes :
                     Struct__getitem__(heap, i, index) = Struct__getitem__(heap, j, index)
    /\ (last.op = "eq" /\ Twins(last.id, last.info.other)) => last.info.res
    /\ (last.op = "setattr" /\ last.info.name = "m") =>
          /\ last.ok
          /\ heap[last.id].d["m"] = last.info.value
    /\ (last.op = "call" /\ last.ok /\ last.info.cls = "Bar") =>
          heap[last.id].d["m"] = last.info.args[1]

\* An immutable instance whose non-field attribute was overwritten after
\* the call was compared with its copy, which holds the hook's value.
C18_Witness ==
    /\ last.op = "eq" /\ last.info.res
    /\ last.id # last.info.other
    /\ ClassOf(heap, last.id)._immutable
    /\ Twins(last.id, last.info.other)
    /\ heap[last.id].d["m"] # heap[last.info.other].d["m"]

---------------------------------------------------------------------------
(* Decomposition *)

\* The current values of the fields of instance i, by schema position.
Current(i) ==
    [p \in 1 .. Len(FieldNames(heap[i].cls)) |-> heap[i].d[FieldNames(heap[i].cls)[p]]]

Bound(x, lo, hi) == IF x < lo THEN lo ELSE IF x > hi THEN hi ELSE x

\* Where a slice of a tuple of n elements starts: the given start, counted
\* from the end when negative, brought into range; the first or the last
\* element when none is given.
FirstOf(sl, n) ==
    IF sl.step > 0
    THEN (IF sl.hs THEN Bound(IF sl.start < 0 THEN sl.start + n ELSE sl.start, 0, n) ELSE 0)
    ELSE (IF sl.hs THEN Bound(IF sl.start < 0 THEN sl.start + n ELSE sl.start, -1, n - 1)
          ELSE n - 1)

LimitOf(sl, n) ==
    IF sl.step > 0
    THEN (IF sl.he THEN Bound(IF sl.stop < 0 THEN sl.stop + n ELSE sl.stop, 0, n) ELSE n)
    ELSE (IF sl.he THEN Bound(IF sl.stop < 0 THEN sl.stop + n ELSE sl.stop, -1, n - 1)
          ELSE -1)

\* t[sl] for a tuple t: the elements at FirstOf, FirstOf + step, ... as
\* long as the limit is not reached.
TupleSlice(t, sl) ==
    LET n == Len(t)
        first == FirstOf(sl, n)
        count == Cardinality({x \in 0 .. (n - 1) :
                     IF sl.step > 0
                     THEN first <= x /\ x < LimitOf(sl, n) /\ (x - first) % sl.step = 0
                     ELSE LimitOf(sl, n) < x /\ x <= first /\ (first - x) % (0 - sl.step) = 0})
    IN [k \in 1 .. count |-> t[first + (k - 1) * sl.step + 1]]

\* C19: len of an instance is the number of its fields; iterating it gives
\* the current field values in schema order; inst[index] is what the tuple
\* of those values gives for the same integer or slice, an IndexError for
\* an integer out of range; _asdict lists the pairs (name, current value)
\* in schema order.
C19_DecomposesAsTuple ==
    /\ last.op = "decompose" =>
          LET names == FieldNames(heap[last.id].cls)
          IN /\ last.info.len = Len(names)
             /\ last.info.iter = Current(last.id)
             /\ last.info.asdict = [p \in DOMAIN names |-> <<names[p], Current(last.id)[p]>>]
    /\ last.op = "getitem" =>
          LET t == Current(last.id)
              n == Len(t)
              index == last.info.index
          IN /\ (index.t = "int" /\ 0 <= index.i /\ index.i < n) =>
                    last.ok /\ last.info.res = t[index.i + 1]
             /\ (index.t = "int" /\ 0 - n <= index.i /\ index.i < 0) =>
                    last.ok /\ last.info.res = t[n + index.i + 1]
             /\ (index.t = "int" /\ (index.i >= n \/ index.i < 0 - n)) =>
                    ~last.ok /\ last.exc.etype = "IndexError"
             /\ index.t = "slice" =>
                    last.ok /\ last.info.res = TupV(TupleSlice(t, index))
             /\ index = Slice(0, 2, 1) => last.info.res = TupV(t)
             /\ index = Slice(0, 0, 1) => last.info.res = TupV(<<>>)
             /\ index = Slice(0, 2, 2) => last.info.res = TupV(<<t[1]>>)
             /\ index = Slice(1, -1, 1) => last.info.res = TupV(<<>>)
             /\ index = Slice(-1, 10, 1) => last.info.res = TupV(<<t[2]>>)
             /\ index = SliceAll(-1) => last.info.res = TupV(<<t[2], t[1]>>)

\* A mutable instance whose first field was rewritten after the call was
\* read with the slice [-1:10].
C19_Witness ==
    /\ last.op = "getitem" /\ last.ok
    /\ last.info.index = Slice(-1, 10, 1)
    /\ heap[last.id].cls = "MutBar"
    /\ heap[last.id].d["b"] = StrV(0)
    /\ last.info.res = TupV(<<StrV(0)>>)

---------------------------------------------------------------------------
(* Item assignment *)

\* The schema positions (from 1) that the assigned slices select in a
\* schema of n fields, in slice order: [:] selects every field from the
\* first, [::-1] every field from the last, [0:0] none.
Selected(index, n) ==
    IF index = SliceAll(1) THEN [k \in 1 .. n |-> k]
    ELSE IF index = SliceAll(-1) THEN [k \in 1 .. n |-> n + 1 - k]
    ELSE <<>>

\* The step assigns to a subscript of a mutable instance.
AssignsItem == last'.op = "setitem" /\ ~ClassOf(heap, last'.id)._immutable

\* C20: on a mutable instance, inst[i] = v writes the field at position i;
\* inst[slice] = values writes the k-th selected field with the k-th value,
\* in slice order, and leaves the other fields alone; when the numbers of
\* values and of selected fields differ, either way, it fails with a
\* ValueError and no field has changed.
C20_ItemAssignment ==
    [][AssignsItem =>
          LET i == last'.id
              index == last'.info.index
              value == last'.info.value
              names == FieldNames(heap[i].cls)
              n == Len(names)
              sel == Selected(index, n)
          IN /\ (index.t = "int" /\ 0 - n <= index.i /\ index.i < n) =>
                    /\ last'.ok
                    /\ heap' = [heap EXCEPT ![i].d[names[((index.i + n) % n) + 1]] = value]
             /\ (index.t = "slice" /\ Len(value.items) = Len(sel)) =>
                    /\ last'.ok
                    /\ \A k \in DOMAIN sel : heap'[i].d[names[sel[k]]] = value.items[k]
                    /\ \A p \in DOMAIN names :
                           (\A k \in DOMAIN sel : sel[k] # p) =>
                               heap'[i].d[names[p]] = heap[i].d[names[p]]
             /\ (index.t = "slice" /\ Len(value.items) # Len(sel)) =>
                    /\ ~last'.ok /\ last'.exc.etype = "ValueError"
                    /\ heap' = heap
    ]_vars

\* inst[::-1] = (0, 1) on a mutable instance: the first field holds 1 and
\* the second 0.
C20_Witness ==
    /\ last.op = "setitem" /\ last.ok
    /\ last.info.index = SliceAll(-1)
    /\ last.info.value = TupV(<<IntV(0), IntV(1)>>)
    /\ heap[last.id].cls = "MutBar"
    /\ heap[last.id].d["a"] = IntV(1) /\ heap[last.id].d["b"] = IntV(0)

---------------------------------------------------------------------------
(* Copy with overrides *)

\* The step is a call of _replace.
Replaces == last'.op = "replace"

\* The current field values of instance i with the overrides substituted,
\* in schema order.
Substituted(i, kargs) ==
    [p \in DOMAIN FieldNames(heap[i].cls) |->
        IF FieldNames(heap[i].cls)[p] \in DOMAIN kargs
        THEN kargs[FieldNames(heap[i].cls)[p]]
        ELSE heap[i].d[FieldNames(heap[i].cls)[p]]]

---------------------------------------------------------------------------
(* Rendering *)

\* The step before was str(inst) or repr(inst).
Rendered == last.op \in {"str", "repr"}

\* The rendering in which one record of the instances being rendered
\* serves both modes: an instance met again while it is being rendered is
\* the placeholder, any other instance is TypeName(name=value, ...) in
\* schema order with its values in the same mode; a list or tuple shows
\* its elements in literal mode, as the built-in rendering does.
RECURSIVE Ideal(_, _, _)
Ideal(v, mode, active) ==
    CASE v.k = "ref" ->
            IF v.n \in active THEN "..."
            ELSE LET fs == ClassOf(heap, v.n)._struct
                 IN heap[v.n].cls \o "("
                    \o Join([p \in DOMAIN fs |->
                                fs[p].name \o "="
                                \o Ideal(heap[v.n].d[fs[p].name], mode, active \cup {v.n})])
                    \o ")"
      [] v.k = "list" ->
            "[" \o Join([p \in DOMAIN v.items |-> Ideal(v.items[p], "repr", active)]) \o "]"
      [] v.k = "tuple" ->
            "(" \o Join([p \in DOMAIN v.items |-> Ideal(v.items[p], "repr", active)])
                \o (IF Len(v.items) = 1 THEN ",)" ELSE ")")
      [] v.k = "str" -> IF mode = "str" THEN Chars[v.n + 1] ELSE "'" \o Chars[v.n + 1] \o "'"
      [] OTHER -> repr(heap, v)

\* Some instance holds a list or tuple with an instance among its elements.
HoldsInstanceInContainer ==
    \E i \in Ids : \E key \in DOMAIN heap[i].d :
        \E p \in DOMAIN heap[i].d[key].items : heap[i].d[key].items[p].k = "ref"

\* C22 as stated: every rendering, in either mode, is the one in which
\* every instance met again while it is being rendered is the placeholder.
C22_ReentrantRenderingElided ==
    Rendered => last.info.res = Ideal(RefV(last.id), last.op, {})

\* C22, amended: every rendering ends, with instances nested inside one
\* another no deeper than the number of instances in literal mode and
\* twice that number in display mode; in literal mode, and in display mode
\* when no list or tuple holds an instance, it is TypeName(name=value, ...)
\* in schema order, every value in the requested mode and every instance
\* met again while it is being rendered replaced by '...'.
C22_RenderingEnds ==
    Rendered =>
        /\ last.ok
        /\ last.op = "repr" => last.info.depth <= Len(heap)
        /\ last.op = "str" => last.info.depth <= 2 * Len(heap)
        /\ (last.op = "repr" \/ ~HoldsInstanceInContainer) =>
               last.info.res = Ideal(RefV(last.id), last.op, {})

\* test_recur: the instance that holds itself renders as Foo(a=...).
C22_Witness ==
    /\ Rendered
    /\ last.op = "repr"
    /\ Len(heap) = 1 /\ heap[1].cls = "Foo"
    /\ heap[1].d["a"] = RefV(1)
    /\ last.info.res = "Foo(a=...)"
    /\ last.info.depth = 1

---------------------------------------------------------------------------
(* The order of an instantiation *)

\* The field names an instance has been given so far.
Written(h, i) == DOMAIN h[i].d \cap Range(FieldNames(h[i].cls))

\* The names of the first k fields of the instance's schema.
FirstNames(h, i, k) ==
    {FieldNames(h[i].cls)[p] : p \in 1 .. Min(k, Len(FieldNames(h[i].cls)))}

\* C23: an instantiation starts with an instance marked not initialized
\* that holds no field; while it goes on the marker stays so, the fields
\* written are the first ones of the schema, each step of Struct.__new__
\* writes the next field alone, through its setter (a typed field holds a
\* value of its kind), and the hook starts only when every field is
\* written; the instantiation ends either by flipping the marker, once the
\* hook is through, and returning the instance, or by a failure that
\* returns no instance and leaves none marked initialized; a failed
\* binding makes no instance; a marker only flips at such an end, and an
\* instance marked initialized stays so under every later operation.
C23_InstantiationOrder ==
    [][LET i == cur.id
           names == FieldNames(heap[i].cls)
           n == Len(names)
           hook == ClassOf(heap, i).init
       IN /\ (cur.phase = "idle" /\ cur'.phase = "new") =>
                 /\ heap' = Append(heap, heap'[cur'.id])
                 /\ cur'.id = Len(heap')
                 /\ ~heap'[cur'.id]._initialized
                 /\ heap'[cur'.id].d = <<>>
                 /\ cur'.pos = 1 /\ cur'.pc = 1
          /\ (cur.phase = "idle" /\ last'.op = "call" /\ ~last'.ok) => heap' = heap
          /\ cur.phase = "new" =>
                 /\ ~heap[i]._initialized
                 /\ Written(heap, i) = FirstNames(heap, i, cur.pos - 1)
                 /\ cur.pc > 1 => cur.pos > n
                 /\ (cur'.phase = "new" /\ cur' # cur) =>
                        /\ cur'.id = i /\ ~heap'[i]._initialized
                        /\ \/ /\ cur.pos <= n
                              /\ cur'.pos = cur.pos + 1 /\ cur'.pc = cur.pc
                              /\ Written(heap', i) = Written(heap, i) \cup {names[cur.pos]}
                              /\ \A name \in Written(heap, i) :
                                     heap'[i].d[name] = heap[i].d[name]
                              /\ ClassOf(heap, i)._struct[cur.pos].ftype = "TypedField" =>
                                     checktype(heap', heap'[i].d[names[cur.pos]],
                                               ClassOf(heap, i)._struct[cur.pos].kind).ok
                           \/ /\ cur.pos > n /\ cur.pc <= Len(hook)
                              /\ cur'.pos = cur.pos /\ cur'.pc = cur.pc + 1
                 /\ (cur'.phase = "idle" /\ last'.ok) =>
                        /\ cur.pos > n /\ cur.pc > Len(hook)
                        /\ last'.op = "call" /\ last'.id = i
                        /\ heap' = [heap EXCEPT ![i]._initialized = TRUE]
                 /\ (cur'.phase = "idle" /\ ~last'.ok) =>
                        /\ last'.id = 0
                        /\ heap' = SubSeq(heap, 1, i - 1)
          /\ \A j \in 1 .. Len(heap) :
                 /\ heap[j]._initialized => j <= Len(heap') /\ heap'[j]._initialized
                 /\ (~heap[j]._initialized /\ j <= Len(heap') /\ heap'[j]._initialized) =>
                        cur.phase = "new" /\ j = i /\ cur'.phase = "idle"
    ]_vars

\* The hook of a Pair made from (0, 1) has run on the instance still
\* marked not initialized: it has rewritten the field a of this immutable
\* type to 1, and the marker flips next.
C23_Witness ==
    /\ cur.phase = "new"
    /\ heap[cur.id].cls = "Pair"
    /\ cur.pos = 3 /\ cur.pc = 2
    /\ ~heap[cur.id]._initialized
    /\ heap[cur.id].d["a"] = IntV(1) /\ heap[cur.id].d["b"] = IntV(1)

---------------------------------------------------------------------------
(* Writes to typed fields of immutable instances *)

\* The step before was a write to a typed field of an initialized instance
\* of an immutable type.
TypedWriteRefused ==
    /\ last.op = "setattr" /\ Immutable(last.id) /\ Initialized(last.id)
    /\ \E p \in DOMAIN ClassOf(heap, last.id)._struct :
           /\ ClassOf(heap, last.id)._struct[p].name = last.info.name
           /\ ClassOf(heap, last.id)._struct[p].ftype = "TypedField"

\* C24: a write to a typed field of an initialized immutable instance
\* fails with the mutation error (AttributeError), whatever the value, and
\* constructs no instance of the field's kind from a tuple.
C24_RefusedBeforeValidation ==
    TypedWriteRefused =>
        /\ ~last.ok
        /\ last.exc.etype = "AttributeError"
        /\ ~last.info.built

\* The tuple (0,) written to the field of kind Bar of a finished immutable
\* owner: the write was refused as a mutation, after a Bar had been
\* constructed from the tuple.
C24_Witness ==
    /\ TypedWriteRefused
    /\ last.info.name = "b" /\ last.info.value = TupV(<<IntV(0)>>)
    /\ ~last.ok /\ last.exc.etype = "AttributeError"
    /\ last.info.built

---------------------------------------------------------------------------
(* The hash of an instance *)

\* The step before was hash(inst) of an initialized instance of an
\* immutable type.
Hashed == last.op = "hash" /\ Immutable(last.id) /\ Initialized(last.id)

\* What the hash strategy of a field makes of an integer: the default
\* strategy gives hash(val), the custom one of the tests int(val) * 2.
Contribution(f, v) ==
    IF f.ftype = "CustomField" THEN 2 * v.n
    ELSE IF v.n = -1 THEN -2 ELSE v.n

\* The XOR of the contributions of the values vs, given to the fields fs
\* in order, from the last field down to the seed 0.
RECURSIVE XorOf(_, _)
XorOf(fs, vs) ==
    IF fs = <<>> THEN 0
    ELSE BitXor(Contribution(Head(fs), Head(vs)), XorOf(Tail(fs), Tail(vs)))

\* Both fields of a type of two fields use the same hash strategy.
SameStrategy(fs) == Len(fs) = 2 /\ fs[1].ftype = fs[2].ftype

\* C25 as stated: the hash of an immutable initialized instance is the XOR
\* of its fields' hash contributions.
C25_HashIsXor ==
    Hashed =>
        /\ last.ok
        /\ last.info.val = XorOf(ClassOf(heap, last.id)._struct, FieldValues(heap, last.id))

\* C25, amended: __hash__ gives the XOR, seeded at zero, of the fields'
\* hash contributions, and hash(inst) is that number unless it is -1, for
\* which hash() gives -2; an instance of one field hashes to the
\* contribution of the field, an instance without fields to 0, and the
\* instance with the values of two fields of the same strategy exchanged
\* hashes to the same number.
C25_HashIsXorButMinusOne ==
    Hashed =>
        LET fs == ClassOf(heap, last.id)._struct
            vs == FieldValues(heap, last.id)
            x == XorOf(fs, vs)
            own == Struct__hash__(heap, last.id)
            exchanged == MetaStruct__call__(heap, heap[last.id].cls, <<vs[2], vs[1]>>, NoKw)
        IN /\ last.ok /\ own.ok
           /\ own.val = x
           /\ last.info.val = (IF x = -1 THEN -2 ELSE x)
           /\ Len(fs) = 0 => last.info.val = 0
           /\ Len(fs) = 1 => last.info.val = Contribution(fs[1], vs[1])
           /\ SameStrategy(fs) =>
                  /\ exchanged.ok
                  /\ PyHash(exchanged.heap, RefV(exchanged.id)) = PyHash(heap, RefV(last.id))

\* test_custom_eq_hash: hash(FooB(2)) is 4; and a point (1, 2), of two
\* different values, hashes to 3 as the point (2, 1) does.
C25_Witness ==
    /\ Hashed /\ last.ok
    /\ heap[last.id].cls = "SPoint"
    /\ heap[last.id].d["x"] = IntV(1) /\ heap[last.id].d["y"] = IntV(2)
    /\ last.info.val = 3

---------------------------------------------------------------------------
(* Concurrent instantiation *)

\* The threads whose frame the step changes.
Stepping == {t \in Threads : cur'[t] # cur[t]}

\* What the call of thread t's frame makes when it runs alone.
Alone(t) == MetaStruct__call__(<<>>, heap[cur[t].id].cls, cur[t].args, NoKw)

\* C26: under every interleaving of instantiations the compiled types stay
\* as they are; a step changes the frame of one thread at most, and in
\* the heap only that thread's instance (or it appends the new one); two
\* threads never work on one instance; until its hook starts, the fields
\* an instance holds are the arguments of its own call, in schema order;
\* and the instance a call returns is, in every attribute, the one the
\* same call makes when it runs alone.
C26_ThreadsDoNotInterfere ==
    [][/\ classes' = classes
       /\ Cardinality(Stepping) <= 1
       /\ \A t, u \in Threads :
              (t # u /\ cur[t].phase = "new" /\ cur[u].phase = "new") => cur[t].id # cur[u].id
       /\ Len(heap') >= Len(heap)
       /\ \A j \in 1 .. Len(heap) :
              heap'[j] # heap[j] => \E t \in Stepping : cur[t].id = j
       /\ \A t \in Threads :
              (cur[t].phase = "new" /\ cur[t].pc = 1) =>
                  /\ Written(heap, cur[t].id) = FirstNames(heap, cur[t].id, cur[t].pos - 1)
                  /\ \A p \in 1 .. Len(FieldNames(heap[cur[t].id].cls)) :
                         FieldNames(heap[cur[t].id].cls)[p] \in DOMAIN heap[cur[t].id].d =>
                             heap[cur[t].id].d[FieldNames(heap[cur[t].id].cls)[p]] =
                                 cur[t].args[p]
       /\ \A t \in Stepping :
              (cur[t].phase = "new" /\ cur'[t].phase = "idle") =>
                  /\ last'.ok = Alone(t).ok
                  /\ last'.ok =>
                         /\ last'.id = cur[t].id
                         /\ heap'[cur[t].id] = Alone(t).heap[Alone(t).id]
                  /\ ~last'.ok => ~heap'[cur[t].id]._initialized
    ]_vars

\* Two threads are both in the middle of instantiating the same type, from
\* different arguments, each instance holding its own first argument.
C26_Witness ==
    /\ cur["t1"].phase = "new" /\ cur["t2"].phase = "new"
    /\ heap[cur["t1"].id].cls = "Defaults" /\ heap[cur["t2"].id].cls = "Defaults"
    /\ cur["t1"].pos = 2 /\ cur["t2"].pos = 2
    /\ heap[cur["t1"].id].d["a"] = IntV(0)
    /\ heap[cur["t2"].id].d["a"] = IntV(1)

---------------------------------------------------------------------------
(* Slice assignment to typed fields *)

\* The step assigns to a slice of a mutable instance as many values as the
\* slice selects fields.
AssignsSlice ==
    /\ AssignsItem
    /\ last'.info.index.t = "slice"
    /\ Len(last'.info.value.items) =
           Len(Selected(last'.info.index, Len(FieldNames(heap[last'.id].cls))))

\* The places k of the assigned values that fail the validation of the
\* field they are assigned to.
Invalid(i, sel, values) ==
    {k \in DOMAIN sel :
        /\ ClassOf(heap, i)._struct[sel[k]].ftype = "TypedField"
        /\ ~TypedField_check(heap, ClassOf(heap, i)._struct[sel[k]], values[k]).ok}

\* C27 as stated: a slice assignment that fails leaves every field as it
\* was.
C27_SliceAssignmentAllOrNothing ==
    [][(AssignsSlice /\ ~last'.ok) => heap' = heap]_vars

\* C27, amended: a slice assignment writes the selected fields one after
\* the other, in slice order; when no value fails validation it succeeds
\* and every selected field holds its value; otherwise it fails with the
\* TypeError of the first failing value, the fields selected before it
\* hold their new values, and the field of the failing value and those
\* after it hold their previous ones.
C27_SliceAssignmentStopsAtFirstFailure ==
    [][AssignsSlice =>
          LET i == last'.id
              names == FieldNames(heap[i].cls)
              sel == Selected(last'.info.index, Len(names))
              values == last'.info.value.items
              bad == Invalid(i, sel, values)
              first == CHOOSE k \in bad : \A k2 \in bad : k <= k2
          IN /\ last'.ok <=> bad = {}
             /\ last'.ok =>
                    \A k \in DOMAIN sel : heap'[i].d[names[sel[k]]] = values[k]
             /\ ~last'.ok =>
                    /\ last'.exc.etype = "TypeError"
                    /\ \A k \in DOMAIN sel :
                           heap'[i].d[names[sel[k]]] =
                               IF k < first THEN values[k] ELSE heap[i].d[names[sel[k]]]
    ]_vars

\* inst[:] = (1, 'a') on a MutPair made from (0, 0) has failed, and the
\* first field holds 1.
C27_Witness ==
    /\ last.op = "setitem" /\ ~last.ok
    /\ last.exc.etype = "TypeError"
    /\ last.info.index = SliceAll(1)
    /\ last.info.value = TupV(<<IntV(1), StrV(0)>>)
    /\ heap[last.id].d["a"] = IntV(1) /\ heap[last.id].d["b"] = IntV(0)

---------------------------------------------------------------------------
(* The stages of the sequence check *)

\* The places (from 1) of the elements that violate the kind.
Violating(items, kindlike) ==
    {p \in DOMAIN items : ~isinstance(heap, items[p], normalize_kind(kindlike))}

\* The name a message gives to the type of an element.
TypeName(v) == IF v = NoneV THEN "None" ELSE v.k

\* C28: the sequence check fails at the first of four stages, in this
\* order: a value that is no sequence; a string; an element that violates
\* the kind, the one at the lowest index being reported; with unique set,
\* an element equal to an earlier one.  A list with a duplicate and, after
\* it, an element that violates the kind fails with the kind error for
\* that element's index.
C28_EarliestStageReported ==
    last.op = "checktype_seq" =>
        LET val == last.info.val
            kindlike == last.info.kindlike
            bad == Violating(val.items, kindlike)
            first == CHOOSE p \in bad : \A q \in bad : p <= q
        IN IF val.k \notin {"list", "tuple", "str"}
           THEN /\ ~last.ok
                /\ last.exc.msg = SeqMessage(kindlike,
                                      <<"; got", TypeName(val), "instead of sequence">>)
           ELSE IF val.k = "str"
           THEN /\ ~last.ok
                /\ last.exc.msg = SeqMessage(kindlike,
                       <<"; got single str (strings do not count as character sequences)">>)
           ELSE IF bad # {}
           THEN /\ ~last.ok
                /\ last.exc.msg = SeqMessage(kindlike,
                       <<"; got sequence with", TypeName(val.items[first]),
                         "at position", ToString(first - 1)>>)
           ELSE IF last.info.unique /\ HasRepeat(val.items)
           THEN /\ ~last.ok
                /\ last.exc.msg[1] = "Duplicate element"
           ELSE last.ok

\* [1, 1, 'a'] was checked for distinct int elements: the check failed on
\* the string at position 2, not on the second 1.
C28_Witness ==
    /\ last.op = "checktype_seq" /\ ~last.ok
    /\ last.info.unique
    /\ last.info.val = ListV(<<IntV(1), IntV(1), StrV(0)>>)
    /\ last.info.kindlike = Type("int")
    /\ last.exc.msg = <<"Expected sequence of", "int", "; got sequence with", "str",
                        "at position", "2">>

=============================================================================
